---- MODULE Spec2Model ----
(***************************************************************************)
(* Ready/valid streaming BFM of the packet mux testbench: the blocking     *)
(* source (AvalonSTSource), the queued source (AvalonSTQueuedSource) and   *)
(* the sinks (AvalonSTSink, AvalonSTSinkWithBackpressure), wired to one    *)
(* port.                                                                   *)
(*                                                                         *)
(* Time base.  Every coroutine suspends on RisingEdge(clk).  A write       *)
(* `sig.value = x` is applied by the simulator after the coroutines of the *)
(* current edge have run, and a read returns the value the signal had at   *)
(* the edge.  sig holds the values every coroutine reads during the        *)
(* current edge, nsig the values after the writes made so far; ClockEdge   *)
(* commits nsig to sig.  ran is the set of coroutines that have already    *)
(* been resumed on the current edge: each runs once per edge, in any order.*)
(***************************************************************************)
EXTENDS Integers, Sequences, FiniteSets, TLC

\* ---------------------------------------------------------------- bounds
MaxLen == 3
MaxOps == 2
MaxQueued == 2
MaxPatSends == 1
MaxSegs == 2
MaxCycles == 2
MaxHold == 2
MaxResets == 1
MaxClears == 1
MaxQClears == 1
MaxSetReady == 2
MaxSetIdle == 1
MinSize == 40
MaxSize == 1525
MaxTimeout == 3

\* Data words are opaque to the agents (they are copied, and compared for
\* equality only): two values give equal and different neighbours.
Words == {1, 2}
\* (empty_last, error) of a packet: all clear, a non-zero empty count, the
\* error flag.
Metas == {<<0, FALSE>>, <<3, FALSE>>, <<0, TRUE>>}
WordLists == UNION {[1..n -> Words] : n \in 0..MaxLen}
\* ready_pattern values: 1..MaxSegs segments (cycles, state), cycles positive.
Segments == (1..MaxCycles) \X BOOLEAN
Patterns == UNION {[1..n -> Segments] : n \in 1..MaxSegs}

VARIABLES
  sig,              \* port signals as read on the current edge
  nsig,             \* port signals after the writes made so far
  ran,              \* coroutines already resumed on the current edge
  src_pc,           \* AvalonSTSource.send_packet: idle | init | wait | fin
  src_words,        \* send_packet: words
  src_empty_last,   \* send_packet: empty_last
  src_error,        \* send_packet: error
  src_i,            \* send_packet: loop index i
  src_acc,          \* history: edges of this send on which ready was observed
  sent,             \* history: arguments of the send_packet calls made
  k_pc,             \* AvalonSTSink.run: off | scheduled | run
  always_ready,     \* AvalonSTSink.run: always_ready
  packets,          \* AvalonSTSink.packets
  cur_pkt,          \* AvalonSTSink._cur_pkt
  in_pkt,           \* AvalonSTSink._in_pkt
  packet_metadata,  \* AvalonSTSink._packet_metadata
  acc_log,          \* history: words run() accepted since the last clear()
  manual,           \* history: words driven by hand by the scenario
  mheld,            \* edges the hand-driven word has been held on the port
  packet_queue,     \* AvalonSTQueuedSource.packet_queue
  current_packet,   \* AvalonSTQueuedSource.current_packet: <<>> is None, <<p>> a packet
  current_word_idx, \* AvalonSTQueuedSource.current_word_idx
  running,          \* AvalonSTQueuedSource._running
  q_pc,             \* _send_task: off | scheduled | init | idle | wait | gap | dead
  q_n,              \* _send_task: local n
  enq,              \* history: arguments of the queue_packet calls made
  bp_pc,            \* AvalonSTSinkWithBackpressure.run: off | scheduled | run
  ready_pattern,    \* run: ready_pattern, <<>> when has_pattern is FALSE
  has_pattern,      \* run: ready_pattern is not None
  pattern_idx,      \* run: pattern_idx
  cycles_in_pattern,\* run: cycles_in_pattern
  bp_packets,       \* AvalonSTSinkWithBackpressure.packets
  bp_cur_pkt,       \* AvalonSTSinkWithBackpressure._cur_pkt
  bp_in_pkt,        \* AvalonSTSinkWithBackpressure._in_pkt
  last_data,        \* AvalonSTSinkWithBackpressure._last_data, NoData is None
  last_valid_ready, \* AvalonSTSinkWithBackpressure._last_valid_ready
  ready_state,      \* AvalonSTSinkWithBackpressure._ready_state
  bp_edges,         \* history: edges run() was resumed on, modulo the pattern's period
  tasks_started,    \* history: _send_task coroutines started by queue_packet
  q_done,           \* history: queued packets whose final word was observed accepted
  qclears,          \* history: clear_queue() calls
  qclear_enq,       \* history: queue_packet calls before the last clear_queue()
  rst_n,            \* dut.rst_n as written by the scenario
  rst_left,         \* edges the scenario still waits in its reset pulse
  rst_count,        \* history: reset pulses begun
  rst_in_pkt,       \* history: _in_pkt when the last reset was asserted
  rst_packets,      \* history: len(packets) when the last reset was asserted
  rst_manual,       \* history: hand-driven words before the last reset
  rst_sent,         \* history: send_packet calls before the last reset
  rst_valid,        \* history: valid as written when the last reset was asserted
  clears,           \* history: AvalonSTSink.clear() calls
  sr_count,         \* history: set_ready() calls
  sr_level,         \* history: argument of the last set_ready() call
  set_idles,        \* history: set_idle() calls on the queued source
  idle_enq,         \* history: packets enqueued when set_idle() was last called
  cp_pc,            \* create_packet: off | call | done
  cp_num_bytes,     \* create_packet: the num_bytes argument
  cp_pattern,       \* create_packet: the pattern argument
  cp_out,           \* create_packet: what the call produced
  wf_pc,            \* wait_for_packet: off | wait | done
  wf_T,             \* wait_for_packet: the timeout_cycles argument
  wf_m,             \* wait_for_packet: the min_packets argument
  wf_left,          \* wait_for_packet: iterations of the loop still to begin
  wf_result,        \* wait_for_packet: the value returned
  wf_edges,         \* history: edges awaited by the call
  wf_count,         \* history: the sink's packet count when the call returned
  port,             \* ingress ports A and B as read on the current edge
  nport,            \* ingress ports A and B after the writes made so far
  drain,            \* the queued source of each ingress port and its task
  mux_sel,          \* the multiplexer's port in transfer: none | A | B
  offered,          \* history: the word list queued on each ingress port
  contended         \* history: both ports have shown a start on one edge

srcVars == <<src_pc, src_words, src_empty_last, src_error, src_i, src_acc, sent>>
sinkCtl == <<k_pc, always_ready>>
sinkVars == <<packets, cur_pkt, in_pkt, packet_metadata, acc_log>>
manVars == <<manual, mheld>>
qVars == <<packet_queue, current_packet, current_word_idx, running, q_pc, q_n, enq,
           tasks_started, q_done, qclears, qclear_enq>>
bpCtl == <<bp_pc, ready_pattern, has_pattern>>
bpVars == <<pattern_idx, cycles_in_pattern, bp_packets, bp_cur_pkt, bp_in_pkt,
            last_data, last_valid_ready, ready_state, bp_edges>>
cpVars == <<cp_pc, cp_num_bytes, cp_pattern, cp_out>>
wfVars == <<wf_pc, wf_T, wf_m, wf_left, wf_result, wf_edges, wf_count>>
muxVars == <<port, nport, drain, mux_sel, offered, contended>>
idleVars == <<set_idles, idle_enq>>
rstPulseVars == <<rst_n, rst_left, rst_count, rst_in_pkt, rst_packets, rst_manual,
              rst_sent, rst_valid, clears>>
scnVars == <<sr_count, sr_level, cpVars, wfVars, muxVars, idleVars>>
rstVars == <<rst_n, rst_left, rst_count, rst_in_pkt, rst_packets, rst_manual,
             rst_sent, rst_valid, clears, scnVars>>
vars == <<sig, nsig, ran, srcVars, sinkCtl, sinkVars, manVars, qVars, bpCtl, bpVars,
          rstVars>>

\* ------------------------------------------------------- pure operators
\* _last_data is None
NoData == 0 - 1

IntOf(b) == IF b THEN 1 ELSE 0

\* The port after reset_dut: every driven signal is 0.
ResetSignals == [data |-> 0, valid |-> 0, sop |-> 0, eop |-> 0,
                 empty |-> 0, error |-> 0, ready |-> 0]

\* Idle with the empty count left as it was.
IdleKeepsEmpty(s) == [s EXCEPT !.valid = 0, !.sop = 0, !.eop = 0, !.error = 0]

\* The idle presentation: valid and all markers deasserted, data untouched.
Idle(s) == [s EXCEPT !.valid = 0, !.sop = 0, !.eop = 0, !.empty = 0, !.error = 0]

\* PresentWord with empty_last driven on every word.
PresentWordEmptyAll(s, words, i, empty_last, error) ==
  LET n == Len(words)
  IN  [s EXCEPT !.data  = words[i + 1],
                !.empty = empty_last,
                !.error = IntOf(error),
                !.sop   = IntOf(i = 0),
                !.eop   = IntOf(i = n - 1),
                !.valid = 1]

\* Word i (0-based, as in the code) of a packet of words, as driven on the port.
PresentWord(s, words, i, empty_last, error) ==
  LET n == Len(words)
  IN  [s EXCEPT !.data  = words[i + 1],
                !.empty = IF i = n - 1 THEN empty_last ELSE 0,
                !.error = IntOf(error),
                !.sop   = IntOf(i = 0),
                !.eop   = IntOf(i = n - 1),
                !.valid = 1]

\* MoreWords leaving the loop one word early.
MoreWordsShort(words, i) == i + 2 < Len(words)

\* `for i, w in enumerate(words)`: another word follows word i.
MoreWords(words, i) == i + 1 < Len(words)

\* ReadyObserved taking a low ready for an acceptance.
ReadyObservedLow(s) == s.ready = 0

\* ReadyObserved without looking at ready.
ReadyIgnored(s) == TRUE

\* `if self.ready.value: break`
ReadyObserved(s) == s.ready = 1

\* SinkTransfer on valid alone.
SinkTransferValidOnly(s) == s.valid = 1

\* `if self.valid.value and self.ready.value`
SinkTransfer(s) == s.valid = 1 /\ s.ready = 1

\* Assemble recording metadata on every accepted end word.
AssembleMetaOnEnd(st, s) ==
  LET in1  == IF s.sop = 1 THEN TRUE ELSE st.in_pkt
      cur1 == IF s.sop = 1 THEN <<>> ELSE st.cur_pkt
      cur2 == IF in1 THEN Append(cur1, s.data) ELSE cur1
  IN  IF s.eop = 1
      THEN [packets  |-> IF in1 THEN Append(st.packets, cur2) ELSE st.packets,
            metadata |-> Append(st.metadata, [empty |-> s.empty, error |-> s.error]),
            cur_pkt  |-> <<>>,
            in_pkt   |-> FALSE]
      ELSE [packets |-> st.packets, metadata |-> st.metadata,
            cur_pkt |-> cur2, in_pkt |-> in1]

\* Assemble buffering accepted words whether or not a packet is in progress.
AssembleAnyWord(st, s) ==
  LET in1  == IF s.sop = 1 THEN TRUE ELSE st.in_pkt
      cur1 == IF s.sop = 1 THEN <<>> ELSE st.cur_pkt
      cur2 == Append(cur1, s.data)
  IN  IF s.eop = 1
      THEN [packets  |-> IF in1 THEN Append(st.packets, cur2) ELSE st.packets,
            metadata |-> IF in1
                         THEN Append(st.metadata, [empty |-> s.empty, error |-> s.error])
                         ELSE st.metadata,
            cur_pkt  |-> <<>>,
            in_pkt   |-> FALSE]
      ELSE [packets |-> st.packets, metadata |-> st.metadata,
            cur_pkt |-> cur2, in_pkt |-> in1]

\* Assemble closing a packet on end whether or not one is in progress.
AssembleCloseAlways(st, s) ==
  LET in1  == IF s.sop = 1 THEN TRUE ELSE st.in_pkt
      cur1 == IF s.sop = 1 THEN <<>> ELSE st.cur_pkt
      cur2 == IF in1 THEN Append(cur1, s.data) ELSE cur1
  IN  IF s.eop = 1
      THEN [packets  |-> Append(st.packets, cur2),
            metadata |-> Append(st.metadata, [empty |-> s.empty, error |-> s.error]),
            cur_pkt  |-> <<>>,
            in_pkt   |-> FALSE]
      ELSE [packets |-> st.packets, metadata |-> st.metadata,
            cur_pkt |-> cur2, in_pkt |-> in1]

\* Assemble keeping only the newest word of the packet in progress.
AssembleOverwrite(st, s) ==
  LET in1  == IF s.sop = 1 THEN TRUE ELSE st.in_pkt
      cur2 == IF in1 THEN <<s.data>> ELSE st.cur_pkt
  IN  IF s.eop = 1
      THEN [packets  |-> IF in1 THEN Append(st.packets, cur2) ELSE st.packets,
            metadata |-> IF in1
                         THEN Append(st.metadata, [empty |-> s.empty, error |-> s.error])
                         ELSE st.metadata,
            cur_pkt  |-> <<>>,
            in_pkt   |-> FALSE]
      ELSE [packets |-> st.packets, metadata |-> st.metadata,
            cur_pkt |-> cur2, in_pkt |-> in1]

\* Assemble recording an empty count of 0 for every packet.
AssembleNoEmpty(st, s) ==
  LET in1  == IF s.sop = 1 THEN TRUE ELSE st.in_pkt
      cur1 == IF s.sop = 1 THEN <<>> ELSE st.cur_pkt
      cur2 == IF in1 THEN Append(cur1, s.data) ELSE cur1
  IN  IF s.eop = 1
      THEN [packets  |-> IF in1 THEN Append(st.packets, cur2) ELSE st.packets,
            metadata |-> IF in1
                         THEN Append(st.metadata, [empty |-> 0, error |-> s.error])
                         ELSE st.metadata,
            cur_pkt  |-> <<>>,
            in_pkt   |-> FALSE]
      ELSE [packets |-> st.packets, metadata |-> st.metadata,
            cur_pkt |-> cur2, in_pkt |-> in1]

\* Assemble without the restart on a start word inside a packet.
AssembleNoRestart(st, s) ==
  LET in1  == IF s.sop = 1 THEN TRUE ELSE st.in_pkt
      cur1 == IF s.sop = 1 /\ ~st.in_pkt THEN <<>> ELSE st.cur_pkt
      cur2 == IF in1 THEN Append(cur1, s.data) ELSE cur1
  IN  IF s.eop = 1
      THEN [packets  |-> IF in1 THEN Append(st.packets, cur2) ELSE st.packets,
            metadata |-> IF in1
                         THEN Append(st.metadata, [empty |-> s.empty, error |-> s.error])
                         ELSE st.metadata,
            cur_pkt  |-> <<>>,
            in_pkt   |-> FALSE]
      ELSE [packets |-> st.packets, metadata |-> st.metadata,
            cur_pkt |-> cur2, in_pkt |-> in1]

\* Assemble keeping only the newest packet in the history.
AssembleKeepLatest(st, s) ==
  LET in1  == IF s.sop = 1 THEN TRUE ELSE st.in_pkt
      cur1 == IF s.sop = 1 THEN <<>> ELSE st.cur_pkt
      cur2 == IF in1 THEN Append(cur1, s.data) ELSE cur1
  IN  IF s.eop = 1
      THEN [packets  |-> IF in1 THEN <<cur2>> ELSE st.packets,
            metadata |-> IF in1
                         THEN <<[empty |-> s.empty, error |-> s.error]>>
                         ELSE st.metadata,
            cur_pkt  |-> <<>>,
            in_pkt   |-> FALSE]
      ELSE [packets |-> st.packets, metadata |-> st.metadata,
            cur_pkt |-> cur2, in_pkt |-> in1]

\* Assemble with the closing word left out of the packet it closes.
AssembleDropLast(st, s) ==
  LET in1  == IF s.sop = 1 THEN TRUE ELSE st.in_pkt
      cur1 == IF s.sop = 1 THEN <<>> ELSE st.cur_pkt
      cur2 == IF in1 THEN Append(cur1, s.data) ELSE cur1
  IN  IF s.eop = 1
      THEN [packets  |-> IF in1 THEN Append(st.packets, cur1) ELSE st.packets,
            metadata |-> IF in1
                         THEN Append(st.metadata, [empty |-> s.empty, error |-> s.error])
                         ELSE st.metadata,
            cur_pkt  |-> <<>>,
            in_pkt   |-> FALSE]
      ELSE [packets |-> st.packets, metadata |-> st.metadata,
            cur_pkt |-> cur2, in_pkt |-> in1]

\* Assemble putting a closed packet at the head of the history.
AssemblePrepend(st, s) ==
  LET in1  == IF s.sop = 1 THEN TRUE ELSE st.in_pkt
      cur1 == IF s.sop = 1 THEN <<>> ELSE st.cur_pkt
      cur2 == IF in1 THEN Append(cur1, s.data) ELSE cur1
  IN  IF s.eop = 1
      THEN [packets  |-> IF in1 THEN <<cur2>> \o st.packets ELSE st.packets,
            metadata |-> IF in1
                         THEN Append(st.metadata, [empty |-> s.empty, error |-> s.error])
                         ELSE st.metadata,
            cur_pkt  |-> <<>>,
            in_pkt   |-> FALSE]
      ELSE [packets |-> st.packets, metadata |-> st.metadata,
            cur_pkt |-> cur2, in_pkt |-> in1]

\* The assembler of AvalonSTSink.run on one accepted word: the new
\* (packets, _cur_pkt, _in_pkt, _packet_metadata).
Assemble(st, s) ==
  LET in1  == IF s.sop = 1 THEN TRUE ELSE st.in_pkt
      cur1 == IF s.sop = 1 THEN <<>> ELSE st.cur_pkt
      cur2 == IF in1 THEN Append(cur1, s.data) ELSE cur1
  IN  IF s.eop = 1
      THEN [packets  |-> IF in1 THEN Append(st.packets, cur2) ELSE st.packets,
            metadata |-> IF in1
                         THEN Append(st.metadata, [empty |-> s.empty, error |-> s.error])
                         ELSE st.metadata,
            cur_pkt  |-> <<>>,
            in_pkt   |-> FALSE]
      ELSE [packets |-> st.packets, metadata |-> st.metadata,
            cur_pkt |-> cur2, in_pkt |-> in1]

SinkState == [packets |-> packets, metadata |-> packet_metadata,
              cur_pkt |-> cur_pkt, in_pkt |-> in_pkt]

\* Python's None as a return value.
None == [none |-> TRUE]

\* AvalonSTSink.get_last_packet_metadata()
get_last_packet_metadata ==
  IF packet_metadata # <<>> THEN packet_metadata[Len(packet_metadata)] ELSE None

\* The ingress ports, and a queued source on which nothing was queued yet.
Ports == {"A", "B"}
NoTask == [queue |-> <<>>, cur |-> <<>>, idx |-> 0, pc |-> "off", n |-> 0]

\* ------------------------------------------------------------------ Init
\* The testbench after construction, before any coroutine is started.
InitTestbench ==
  /\ sig = ResetSignals
  /\ nsig = ResetSignals
  /\ ran = {}
  /\ src_pc = "idle"
  /\ src_words = <<>>
  /\ src_empty_last = 0
  /\ src_error = FALSE
  /\ src_i = 0
  /\ src_acc = 0
  /\ sent = <<>>
  /\ k_pc = "off"
  /\ always_ready = TRUE
  /\ packets = <<>>
  /\ cur_pkt = <<>>
  /\ in_pkt = FALSE
  /\ packet_metadata = <<>>
  /\ acc_log = <<>>
  /\ manual = <<>>
  /\ mheld = 0
  /\ packet_queue = <<>>
  /\ current_packet = <<>>
  /\ current_word_idx = 0
  /\ running = FALSE
  /\ q_pc = "off"
  /\ q_n = 0
  /\ enq = <<>>
  /\ bp_pc = "off"
  /\ ready_pattern = <<>>
  /\ has_pattern = FALSE
  /\ pattern_idx = 0
  /\ cycles_in_pattern = 0
  /\ bp_packets = <<>>
  /\ bp_cur_pkt = <<>>
  /\ bp_in_pkt = FALSE
  /\ last_data = NoData
  /\ last_valid_ready = FALSE
  /\ ready_state = TRUE
  /\ bp_edges = 0
  /\ tasks_started = 0
  /\ q_done = 0
  /\ qclears = 0
  /\ qclear_enq = 0
  /\ rst_n = 1
  /\ rst_left = 0
  /\ rst_count = 0
  /\ rst_in_pkt = FALSE
  /\ rst_packets = 0
  /\ rst_manual = 0
  /\ rst_sent = 0
  /\ rst_valid = 0
  /\ clears = 0
  /\ sr_count = 0
  /\ sr_level = 0
  /\ set_idles = 0
  /\ idle_enq = 0
  /\ wf_pc = "off"
  /\ wf_T = 0
  /\ wf_m = 0
  /\ wf_left = 0
  /\ wf_result = FALSE
  /\ wf_edges = 0
  /\ wf_count = 0
  /\ port = [p \in Ports |-> ResetSignals]
  /\ nport = [p \in Ports |-> ResetSignals]
  /\ drain = [p \in Ports |-> NoTask]
  /\ mux_sel = "none"
  /\ offered = [p \in Ports |-> <<>>]
  /\ contended = FALSE

NoPacket == [raised |-> FALSE, words |-> <<>>, empty_last |-> 0]

Init ==
  /\ InitTestbench
  /\ cp_pc = "off"
  /\ cp_num_bytes = 0
  /\ cp_pattern = "random"
  /\ cp_out = NoPacket

\* Every coroutine suspended on the clock has been resumed on this edge.
AllRan ==
  /\ src_pc # "idle" => "src" \in ran
  /\ k_pc # "scheduled" /\ q_pc # "scheduled" /\ bp_pc # "scheduled"
  /\ k_pc = "run" => "sink" \in ran
  /\ q_pc \in {"init", "idle", "wait", "gap"} => "qsrc" \in ran
  /\ bp_pc = "run" => "bpsink" \in ran
  /\ rst_left > 0 => "rst" \in ran
  /\ wf_pc = "wait" => "wf" \in ran
  /\ \A p \in Ports : /\ drain[p].pc # "scheduled"
                      /\ drain[p].pc \in {"init", "idle", "wait", "gap"} => p \in ran

\* ------------------------------------------------------- AvalonSTSource
\* send_packet is called: the idle defaults are written and the coroutine
\* suspends on the next edge.  The scenario starts a sink first, and binds
\* the port to one kind of source.  The scenario is itself a coroutine
\* resumed on the edge; its calls are placed after the agents of the edge
\* (a call before an agent's step on edge N acts as one after its step on
\* edge N-1).
SendPacket(words, empty_last, error) ==
  /\ src_pc = "idle"
  /\ rst_left = 0
  /\ q_pc = "off"
  /\ AllRan
  /\ \/ k_pc = "run" /\ Len(sent) + Len(manual) < MaxOps
     \/ bp_pc = "run" /\ Len(sent) < MaxPatSends
  /\ nsig' = Idle(nsig)
  /\ src_pc' = "init"
  /\ src_words' = words
  /\ src_empty_last' = empty_last
  /\ src_error' = error
  /\ src_i' = 0
  /\ src_acc' = 0
  /\ sent' = Append(sent, [words |-> words, empty_last |-> empty_last, error |-> error])
  /\ ran' = ran \cup {"src"}
  /\ UNCHANGED <<sig, sinkCtl, sinkVars, manVars, qVars, bpCtl, bpVars, rstVars>>

\* send_packet resumed on an edge.
SrcStep ==
  /\ src_pc \in {"init", "wait", "fin"}
  /\ "src" \notin ran
  /\ ran' = ran \cup {"src"}
  /\ \/ /\ src_pc = "init"
        /\ IF Len(src_words) = 0
           THEN /\ nsig' = Idle(nsig)
                /\ src_pc' = "fin"
           ELSE /\ nsig' = PresentWord(nsig, src_words, 0, src_empty_last, src_error)
                /\ src_pc' = "wait"
        /\ UNCHANGED <<src_i, src_acc>>
     \/ /\ src_pc = "wait"
        /\ IF ReadyObserved(sig)
           THEN /\ src_acc' = src_acc + 1
                /\ IF MoreWords(src_words, src_i)
                   THEN /\ nsig' = PresentWord(nsig, src_words, src_i + 1,
                                               src_empty_last, src_error)
                        /\ src_i' = src_i + 1
                        /\ src_pc' = "wait"
                   ELSE /\ nsig' = Idle(nsig)
                        /\ src_pc' = "fin"
                        /\ src_i' = src_i
           ELSE UNCHANGED <<nsig, src_pc, src_i, src_acc>>
     \/ /\ src_pc = "fin"
        /\ src_pc' = "idle"
        /\ UNCHANGED <<nsig, src_i, src_acc>>
  /\ UNCHANGED <<sig, src_words, src_empty_last, src_error, sent,
                 sinkCtl, sinkVars, manVars, qVars, bpCtl, bpVars, rstVars>>

\* --------------------------------------------------------- AvalonSTSink
\* cocotb.start_soon(sink.run(always_ready)): the task is scheduled.
StartSink(ar) ==
  /\ k_pc = "off"
  /\ bp_pc = "off"
  /\ k_pc' = "scheduled"
  /\ always_ready' = ar
  /\ UNCHANGED <<sig, nsig, ran, srcVars, sinkVars, manVars, qVars, bpCtl, bpVars, rstVars>>

\* run() up to its first await.
SinkBegin ==
  /\ k_pc = "scheduled"
  /\ k_pc' = "run"
  /\ nsig' = IF always_ready THEN [nsig EXCEPT !.ready = 1] ELSE nsig
  /\ ran' = ran \cup {"sink"}
  /\ UNCHANGED <<sig, srcVars, always_ready, sinkVars, manVars, qVars, bpCtl, bpVars, rstVars>>

\* run() resumed on an edge.
SinkStep ==
  /\ k_pc = "run"
  /\ "sink" \notin ran
  /\ ran' = ran \cup {"sink"}
  /\ LET st == IF SinkTransfer(sig) THEN Assemble(SinkState, sig) ELSE SinkState
     IN  /\ packets' = st.packets
         /\ packet_metadata' = st.metadata
         /\ cur_pkt' = st.cur_pkt
         /\ in_pkt' = st.in_pkt
  /\ acc_log' = IF clears > 0 /\ SinkTransfer(sig)
                THEN Append(acc_log, [data |-> sig.data, sop |-> sig.sop,
                                      eop |-> sig.eop])
                ELSE acc_log
  /\ UNCHANGED <<sig, nsig, srcVars, sinkCtl, manVars, qVars, bpCtl, bpVars, rstVars>>

\* ------------------------------------------------------------- scenario
\* With always_ready=False ready is controlled externally: the scenario
\* writes it, at most once per edge.  No agent reads nsig or writes ready in
\* this mode, so the write is placed after the agents of the edge.
ExternalReady(v) ==
  /\ k_pc = "run"
  /\ ~always_ready
  /\ rst_left = 0
  /\ AllRan
  /\ nsig.ready = sig.ready
  /\ nsig.ready # v
  /\ nsig' = [nsig EXCEPT !.ready = v]
  /\ UNCHANGED <<sig, ran, srcVars, sinkCtl, sinkVars, manVars, qVars, bpCtl, bpVars, rstVars>>

\* The scenario drives one word by hand while no send is in progress.
ManualDrive(d, sop, eop) ==
  /\ src_pc = "idle"
  /\ rst_left = 0
  /\ q_pc = "off"
  /\ k_pc = "run" \/ bp_pc = "run"
  /\ Len(sent) + Len(manual) < MaxOps
  /\ nsig.valid = 0
  /\ nsig' = [nsig EXCEPT !.data = d, !.valid = 1, !.sop = sop, !.eop = eop]
  /\ manual' = Append(manual, [data |-> d, sop |-> sop, eop |-> eop])
  /\ mheld' = 0
  /\ UNCHANGED <<sig, ran, srcVars, sinkCtl, sinkVars, qVars, bpCtl, bpVars, rstVars>>

\* A hand-driven word is on the port.
ManualHeld == src_pc = "idle" /\ manual # <<>> /\ nsig.valid = 1

\* ... and takes it back.
ManualRelease ==
  /\ ManualHeld
  /\ rst_left = 0
  /\ nsig' = [nsig EXCEPT !.valid = 0]
  /\ mheld' = 0
  /\ UNCHANGED <<sig, ran, srcVars, sinkCtl, sinkVars, manual, qVars, bpCtl, bpVars, rstVars>>

\* ------------------------------------------------- AvalonSTQueuedSource
\* The drain task's view of the queued source and of the port.
QState == [queue |-> packet_queue, cur |-> current_packet,
           idx |-> current_word_idx, pc |-> q_pc, n |-> q_n, s |-> nsig]

\* SendWord driving the packet's empty_last on every word.
SendWordEmptyAll(q) ==
  LET p == q.cur[1]
  IN  IF q.idx < Len(p.words)
      THEN [q EXCEPT !.s = PresentWordEmptyAll(q.s, p.words, q.idx, p.empty_last,
                                               p.error),
                     !.n = Len(p.words), !.pc = "wait"]
      ELSE [q EXCEPT !.n = Len(p.words), !.pc = "dead"]

\* "Send current word": present word current_word_idx of current_packet and
\* suspend on the next edge.  words[i] out of range raises IndexError, which
\* ends the task.
SendWord(q) ==
  LET p == q.cur[1]
  IN  IF q.idx < Len(p.words)
      THEN [q EXCEPT !.s = PresentWord(q.s, p.words, q.idx, p.empty_last, p.error),
                     !.n = Len(p.words), !.pc = "wait"]
      ELSE [q EXCEPT !.n = Len(p.words), !.pc = "dead"]

\* LoopTop leaving current_word_idx as it is when it takes a packet.
LoopTopKeepIdx(q) ==
  IF q.cur = <<>>
  THEN IF q.queue = <<>>
       THEN [q EXCEPT !.s = Idle(q.s), !.pc = "idle"]
       ELSE SendWord([q EXCEPT !.cur = <<Head(q.queue)>>, !.queue = Tail(q.queue)])
  ELSE SendWord(q)

\* LoopTop taking the newest packet of the queue instead of the oldest.
LoopTopNewest(q) ==
  IF q.cur = <<>>
  THEN IF q.queue = <<>>
       THEN [q EXCEPT !.s = Idle(q.s), !.pc = "idle"]
       ELSE SendWord([q EXCEPT !.cur = <<q.queue[Len(q.queue)]>>,
                               !.queue = SubSeq(q.queue, 1, Len(q.queue) - 1),
                               !.idx = 0])
  ELSE SendWord(q)

\* The top of the task's loop: "Get next packet if we don't have one".
LoopTop(q) ==
  IF q.cur = <<>>
  THEN IF q.queue = <<>>
       THEN [q EXCEPT !.s = Idle(q.s), !.pc = "idle"]
       ELSE SendWord([q EXCEPT !.cur = <<Head(q.queue)>>, !.queue = Tail(q.queue),
                               !.idx = 0])
  ELSE SendWord(q)

\* AfterReady carrying the advanced cursor into a packet taken right after
\* a clear_queue().
AfterReadyCarryIdx(q) ==
  LET i1 == q.idx + 1
  IN  IF i1 >= q.n
      THEN [q EXCEPT !.s = Idle(q.s), !.cur = <<>>, !.idx = 0, !.pc = "gap"]
      ELSE LoopTopKeepIdx([q EXCEPT !.idx = i1])

\* AfterReady taking the packet as complete after any accepted word.
AfterReadyEarly(q) ==
  [q EXCEPT !.s = Idle(q.s), !.cur = <<>>, !.idx = 0, !.pc = "gap"]

\* AfterReady going on to the next packet without the idle edge.
AfterReadyNoGap(q) ==
  LET i1 == q.idx + 1
  IN  IF i1 >= q.n
      THEN LoopTop([q EXCEPT !.s = Idle(q.s), !.cur = <<>>, !.idx = 0])
      ELSE LoopTop([q EXCEPT !.idx = i1])

\* "Move to next word" and "Check if packet is complete", after ready was
\* observed.
AfterReady(q) ==
  LET i1 == q.idx + 1
  IN  IF i1 >= q.n
      THEN [q EXCEPT !.s = Idle(q.s), !.cur = <<>>, !.idx = 0, !.pc = "gap"]
      ELSE LoopTop([q EXCEPT !.idx = i1])

\* The task resumed on an edge.
DrainStep(q, s) ==
  IF q.pc = "wait"
  THEN IF ReadyObserved(s) THEN AfterReady(q) ELSE q
  ELSE LoopTop(q)

\* get_queue_size() without the packet in flight.
QueuedOnly == Len(packet_queue)

\* get_queue_size()
get_queue_size == Len(packet_queue) + IF current_packet # <<>> THEN 1 ELSE 0

\* StartsTask that does not look at _running.
StartsTaskAlways(r) == TRUE

\* `if not self._running`
StartsTask(r) == ~r

\* queue_packet: append, and start the task on first use.
QueuePacket(words, empty_last, error) ==
  /\ src_pc = "idle" /\ sent = <<>> /\ manual = <<>>
  /\ rst_left = 0
  /\ AllRan
  /\ k_pc = "run"
  /\ Len(enq) < MaxQueued
  /\ LET p == [words |-> words, empty_last |-> empty_last, error |-> error]
     IN  /\ packet_queue' = Append(packet_queue, p)
         /\ enq' = Append(enq, p)
  /\ IF StartsTask(running)
     THEN running' = TRUE /\ q_pc' = "scheduled" /\ tasks_started' = tasks_started + 1
     ELSE UNCHANGED <<running, q_pc, tasks_started>>
  /\ UNCHANGED <<sig, nsig, ran, srcVars, sinkCtl, sinkVars, manVars,
                 current_packet, current_word_idx, q_n, q_done, qclears, qclear_enq,
                 bpCtl, bpVars, rstVars>>

\* clear_queue(), called by the scenario between the steps of the task.
ClearQueue ==
  /\ k_pc = "run"
  /\ src_pc = "idle" /\ sent = <<>> /\ manual = <<>>
  /\ rst_left = 0
  /\ AllRan
  /\ qclears < MaxQClears
  /\ qclears' = qclears + 1
  /\ qclear_enq' = Len(enq)
  /\ packet_queue' = <<>>
  /\ current_packet' = <<>>
  /\ current_word_idx' = 0
  /\ UNCHANGED <<sig, nsig, ran, srcVars, sinkCtl, sinkVars, manVars, running, q_pc, q_n,
                 enq, tasks_started, q_done, bpCtl, bpVars, rstVars>>

\* set_idle(), called by the scenario between the steps of the task.
SetIdle ==
  /\ k_pc = "run"
  /\ src_pc = "idle" /\ sent = <<>> /\ manual = <<>>
  /\ rst_left = 0
  /\ AllRan
  /\ q_pc # "off"
  /\ set_idles < MaxSetIdle
  /\ set_idles' = set_idles + 1
  /\ idle_enq' = Len(enq)
  /\ nsig' = Idle(nsig)
  /\ UNCHANGED <<sig, ran, srcVars, sinkCtl, sinkVars, manVars, qVars, bpCtl, bpVars,
                 rst_n, rst_left, rst_count, rst_in_pkt, rst_packets, rst_manual,
                 rst_sent, rst_valid, clears, sr_count, sr_level, cpVars, wfVars,
                 muxVars>>

\* _send_task up to its first await.
QBegin ==
  /\ q_pc = "scheduled"
  /\ q_pc' = "init"
  /\ nsig' = Idle(nsig)
  /\ ran' = ran \cup {"qsrc"}
  /\ UNCHANGED <<sig, srcVars, sinkCtl, sinkVars, manVars, packet_queue,
                 current_packet, current_word_idx, running, q_n, enq, tasks_started,
                 q_done, qclears, qclear_enq, bpCtl, bpVars, rstVars>>

\* _send_task resumed on an edge.
QStep ==
  /\ q_pc \in {"init", "idle", "wait", "gap"}
  /\ "qsrc" \notin ran
  /\ ran' = ran \cup {"qsrc"}
  /\ LET q == DrainStep(QState, sig)
     IN  /\ packet_queue' = q.queue
         /\ current_packet' = q.cur
         /\ current_word_idx' = q.idx
         /\ q_pc' = q.pc
         /\ q_n' = q.n
         /\ nsig' = q.s
         /\ q_done' = IF q_pc = "wait" /\ q.pc = "gap" THEN q_done + 1 ELSE q_done
  /\ UNCHANGED <<sig, srcVars, sinkCtl, sinkVars, manVars, running, enq, tasks_started,
                 qclears, qclear_enq, bpCtl, bpVars, rstVars>>

\* ----------------------------------------- AvalonSTSinkWithBackpressure
\* PatternStep writing the current segment's level on every edge.
PatternStepAlwaysWrite(pat, idx, cip) ==
  LET c1 == cip + 1
  IN  IF idx < Len(pat) /\ c1 >= pat[idx + 1][1]
      THEN LET i1 == idx + 1
           IN  IF i1 < Len(pat)
               THEN [idx |-> i1, cip |-> 0, write |-> TRUE, level |-> pat[i1 + 1][2]]
               ELSE [idx |-> 0, cip |-> 0, write |-> TRUE, level |-> pat[1][2]]
      ELSE [idx |-> idx, cip |-> c1, write |-> TRUE, level |-> pat[idx + 1][2]]

\* PatternStep carrying the elapsed-cycle count over a segment boundary.
PatternStepCarry(pat, idx, cip) ==
  LET c1 == cip + 1
  IN  IF idx < Len(pat) /\ c1 >= pat[idx + 1][1]
      THEN LET i1 == idx + 1
           IN  IF i1 < Len(pat)
               THEN [idx |-> i1, cip |-> c1, write |-> TRUE, level |-> pat[i1 + 1][2]]
               ELSE [idx |-> 0, cip |-> c1, write |-> TRUE, level |-> pat[1][2]]
      ELSE [idx |-> idx, cip |-> c1, write |-> FALSE, level |-> FALSE]

\* PatternStep staying on the last segment instead of wrapping.
PatternStepNoWrap(pat, idx, cip) ==
  LET c1 == cip + 1
  IN  IF idx < Len(pat) /\ c1 >= pat[idx + 1][1]
      THEN LET i1 == idx + 1
           IN  IF i1 < Len(pat)
               THEN [idx |-> i1, cip |-> 0, write |-> TRUE, level |-> pat[i1 + 1][2]]
               ELSE [idx |-> idx, cip |-> 0, write |-> FALSE, level |-> FALSE]
      ELSE [idx |-> idx, cip |-> c1, write |-> FALSE, level |-> FALSE]

\* The sum of the cycles of a pattern's segments.
RECURSIVE PatternPeriod(_)
PatternPeriod(pat) ==
  IF pat = <<>> THEN 0 ELSE pat[1][1] + PatternPeriod(Tail(pat))

\* The pattern controller on one edge: the new (pattern_idx,
\* cycles_in_pattern), and whether ready is written and at which level.
PatternStep(pat, idx, cip) ==
  LET c1 == cip + 1
  IN  IF idx < Len(pat) /\ c1 >= pat[idx + 1][1]
      THEN LET i1 == idx + 1
           IN  IF i1 < Len(pat)
               THEN [idx |-> i1, cip |-> 0, write |-> TRUE, level |-> pat[i1 + 1][2]]
               ELSE [idx |-> 0, cip |-> 0, write |-> TRUE, level |-> pat[1][2]]
      ELSE [idx |-> idx, cip |-> c1, write |-> FALSE, level |-> FALSE]

\* BPAssemble keeping the words buffered so far when a start word arrives.
BPAssembleNoRestart(st, s) ==
  LET in1  == IF s.sop = 1 THEN TRUE ELSE st.in_pkt
      cur2 == IF in1 THEN Append(st.cur_pkt, s.data) ELSE st.cur_pkt
  IN  IF s.eop = 1
      THEN [st EXCEPT !.packets = IF in1 THEN Append(st.packets, cur2) ELSE st.packets,
                      !.cur_pkt = <<>>, !.in_pkt = FALSE]
      ELSE [st EXCEPT !.cur_pkt = cur2, !.in_pkt = in1]

\* The assembler of run(ready_pattern=None) on one accepted word.
BPAssemble(st, s) ==
  LET in1  == IF s.sop = 1 THEN TRUE ELSE st.in_pkt
      cur1 == IF s.sop = 1 THEN <<>> ELSE st.cur_pkt
      cur2 == IF in1 THEN Append(cur1, s.data) ELSE cur1
  IN  IF s.eop = 1
      THEN [st EXCEPT !.packets = IF in1 THEN Append(st.packets, cur2) ELSE st.packets,
                      !.cur_pkt = <<>>, !.in_pkt = FALSE]
      ELSE [st EXCEPT !.cur_pkt = cur2, !.in_pkt = in1]

\* BPCollect recording every accepted word of a packet in progress.
BPCollectEveryEdge(st, s) ==
  IF s.valid = 1 /\ s.ready = 1
  THEN LET d    == s.data
           sop  == s.sop = 1
           cur1 == IF sop THEN <<>> ELSE st.cur_pkt
           in1  == IF sop THEN TRUE ELSE st.in_pkt
           cur2 == IF in1 THEN Append(cur1, d) ELSE cur1
       IN  IF s.eop = 1 /\ in1
           THEN [packets |-> Append(st.packets, cur2), cur_pkt |-> <<>>,
                 in_pkt |-> FALSE, last_data |-> NoData, last_valid_ready |-> TRUE]
           ELSE [packets |-> st.packets, cur_pkt |-> cur2, in_pkt |-> in1,
                 last_data |-> IF in1 THEN d ELSE st.last_data,
                 last_valid_ready |-> TRUE]
  ELSE [st EXCEPT !.last_valid_ready = FALSE]

\* "Collect packet data" of the pattern branch on one edge, with the
\* duplicate tracking (_last_data, _last_valid_ready).
BPCollect(st, s) ==
  IF s.valid = 1 /\ s.ready = 1
  THEN LET d    == s.data
           sop  == s.sop = 1
           cur1 == IF sop THEN <<>> ELSE st.cur_pkt
           in1  == IF sop THEN TRUE ELSE st.in_pkt
           ld1  == IF sop THEN NoData ELSE st.last_data
           lvr1 == IF sop THEN FALSE ELSE st.last_valid_ready
           is_rising_edge == ~lvr1
           data_changed   == ld1 # NoData /\ d # ld1
           collect == (is_rising_edge \/ data_changed) /\ in1
           ld2  == IF collect THEN d ELSE ld1
           cur2 == IF collect THEN Append(cur1, d) ELSE cur1
       IN  IF s.eop = 1 /\ in1
           THEN [packets |-> Append(st.packets, cur2), cur_pkt |-> <<>>,
                 in_pkt |-> FALSE, last_data |-> NoData, last_valid_ready |-> TRUE]
           ELSE [packets |-> st.packets, cur_pkt |-> cur2, in_pkt |-> in1,
                 last_data |-> ld2, last_valid_ready |-> TRUE]
  ELSE [st EXCEPT !.last_valid_ready = FALSE]

BPState == [packets |-> bp_packets, cur_pkt |-> bp_cur_pkt, in_pkt |-> bp_in_pkt,
            last_data |-> last_data, last_valid_ready |-> last_valid_ready]

\* cocotb.start_soon(sink.run(ready_pattern)): the task is scheduled.
\* hp is FALSE for ready_pattern=None.
StartBPSink(hp, pat) ==
  /\ bp_pc = "off"
  /\ k_pc = "off"
  /\ bp_pc' = "scheduled"
  /\ has_pattern' = hp
  /\ ready_pattern' = IF hp THEN pat ELSE <<>>
  /\ UNCHANGED <<sig, nsig, ran, srcVars, sinkCtl, sinkVars, manVars, qVars, bpVars, rstVars>>

\* run() up to its first await.
BPBegin ==
  /\ bp_pc = "scheduled"
  /\ bp_pc' = "run"
  /\ ran' = ran \cup {"bpsink"}
  /\ IF ~has_pattern
     THEN /\ nsig' = [nsig EXCEPT !.ready = 1]
          /\ ready_state' = TRUE
          /\ UNCHANGED <<pattern_idx, cycles_in_pattern>>
     ELSE /\ pattern_idx' = 0
          /\ cycles_in_pattern' = 0
          /\ IF ready_pattern # <<>>
             THEN /\ nsig' = [nsig EXCEPT !.ready = IntOf(ready_pattern[1][2])]
                  /\ ready_state' = ready_pattern[1][2]
             ELSE UNCHANGED <<nsig, ready_state>>
  /\ UNCHANGED <<sig, srcVars, sinkCtl, sinkVars, manVars, qVars, ready_pattern,
                 has_pattern, bp_packets, bp_cur_pkt, bp_in_pkt, last_data,
                 last_valid_ready, bp_edges, rstVars>>

\* run() resumed on an edge.
BPStep ==
  /\ bp_pc = "run"
  /\ "bpsink" \notin ran
  /\ ran' = ran \cup {"bpsink"}
  /\ IF ~has_pattern
     THEN /\ LET st == IF SinkTransfer(sig) THEN BPAssemble(BPState, sig) ELSE BPState
             IN  /\ bp_packets' = st.packets
                 /\ bp_cur_pkt' = st.cur_pkt
                 /\ bp_in_pkt' = st.in_pkt
          /\ UNCHANGED <<nsig, pattern_idx, cycles_in_pattern, last_data,
                         last_valid_ready, ready_state, bp_edges>>
     ELSE /\ LET ps == PatternStep(ready_pattern, pattern_idx, cycles_in_pattern)
             IN  /\ pattern_idx' = ps.idx
                 /\ cycles_in_pattern' = ps.cip
                 /\ nsig' = IF ps.write THEN [nsig EXCEPT !.ready = IntOf(ps.level)]
                                        ELSE nsig
                 /\ ready_state' = IF ps.write THEN ps.level ELSE ready_state
          /\ bp_edges' = (bp_edges + 1) % PatternPeriod(ready_pattern)
          /\ LET st == BPCollect(BPState, sig)
             IN  /\ bp_packets' = st.packets
                 /\ bp_cur_pkt' = st.cur_pkt
                 /\ bp_in_pkt' = st.in_pkt
                 /\ last_data' = st.last_data
                 /\ last_valid_ready' = st.last_valid_ready
  /\ UNCHANGED <<sig, srcVars, sinkCtl, sinkVars, manVars, qVars, bpCtl, rstVars>>

\* Both sink classes started on the same port in the same timestep:
\* AvalonSTSink.run(always_ready=True) and
\* AvalonSTSinkWithBackpressure.run(ready_pattern=None).
StartBothSinks ==
  /\ k_pc = "off"
  /\ bp_pc = "off"
  /\ k_pc' = "scheduled"
  /\ always_ready' = TRUE
  /\ bp_pc' = "scheduled"
  /\ has_pattern' = FALSE
  /\ ready_pattern' = <<>>
  /\ UNCHANGED <<sig, nsig, ran, srcVars, sinkVars, manVars, qVars, bpVars, rstVars>>

\* set_ready(value), called by the scenario at any point once run() has been
\* started.
SetReady(v) ==
  /\ bp_pc \in {"scheduled", "run"}
  /\ sr_count < MaxSetReady
  /\ sr_count' = sr_count + 1
  /\ sr_level' = v
  /\ nsig' = [nsig EXCEPT !.ready = v]
  /\ ready_state' = (v = 1)
  /\ UNCHANGED <<sig, ran, srcVars, sinkCtl, sinkVars, manVars, qVars, bpCtl,
                 pattern_idx, cycles_in_pattern, bp_packets, bp_cur_pkt, bp_in_pkt,
                 last_data, last_valid_ready, bp_edges,
                 rst_n, rst_left, rst_count, rst_in_pkt, rst_packets, rst_manual,
                 rst_sent, rst_valid, clears, cpVars, wfVars, muxVars, idleVars>>

\* ------------------------------------------------ reset pulse and clear
RESET_CYCLES == 5
RESET_DEASSERT_DELAY == 2

\* The scenario asserts reset while no send is in progress (rst_n.value = 0)
\* and waits RESET_CYCLES edges, then RESET_DEASSERT_DELAY more after
\* releasing it.  The port signals are not written.
ResetPulse ==
  /\ rst_left = 0
  /\ rst_count < MaxResets
  /\ src_pc = "idle"
  /\ q_pc = "off"
  /\ k_pc = "run"
  /\ AllRan
  /\ rst_n' = 0
  /\ rst_left' = RESET_CYCLES + RESET_DEASSERT_DELAY
  /\ rst_count' = rst_count + 1
  /\ rst_in_pkt' = in_pkt
  /\ rst_packets' = Len(packets)
  /\ rst_manual' = Len(manual)
  /\ rst_sent' = Len(sent)
  /\ rst_valid' = nsig.valid
  /\ ran' = ran \cup {"rst"}
  /\ UNCHANGED <<sig, nsig, srcVars, sinkCtl, sinkVars, manVars, qVars, bpCtl, bpVars,
                 clears, scnVars>>

\* The scenario resumed on an edge of its reset pulse: rst_n.value = 1 after
\* RESET_CYCLES edges.
RstStep ==
  /\ rst_left > 0
  /\ "rst" \notin ran
  /\ ran' = ran \cup {"rst"}
  /\ rst_left' = rst_left - 1
  /\ rst_n' = IF rst_left - 1 <= RESET_DEASSERT_DELAY THEN 1 ELSE rst_n
  /\ UNCHANGED <<sig, nsig, srcVars, sinkCtl, sinkVars, manVars, qVars, bpCtl, bpVars,
                 rst_count, rst_in_pkt, rst_packets, rst_manual, rst_sent, rst_valid,
                 clears, scnVars>>

\* The values of reset_dut's cycles argument that are followed.
ResetLengths == {1, RESET_CYCLES}

\* reset_dut(dut, cycles) is called: reset is asserted, the port's valid,
\* sop, eop, empty and error and the egress ready are written 0, and the
\* coroutine waits cycles edges (RstStep), releases reset and waits
\* RESET_DEASSERT_DELAY more.  Tasks started earlier keep running.
ResetDut(cycles) ==
  /\ rst_left = 0
  /\ rst_count < MaxResets
  /\ src_pc = "idle"
  /\ AllRan
  /\ rst_n' = 0
  /\ nsig' = [nsig EXCEPT !.valid = 0, !.sop = 0, !.eop = 0, !.empty = 0,
                          !.error = 0, !.ready = 0]
  /\ rst_left' = cycles + RESET_DEASSERT_DELAY
  /\ rst_count' = rst_count + 1
  /\ rst_in_pkt' = in_pkt
  /\ rst_packets' = Len(packets)
  /\ rst_manual' = Len(manual)
  /\ rst_sent' = Len(sent)
  /\ rst_valid' = nsig.valid
  /\ ran' = ran \cup {"rst"}
  /\ UNCHANGED <<sig, srcVars, sinkCtl, sinkVars, manVars, qVars, bpCtl, bpVars,
                 clears, scnVars>>

\* clear() emptying the history but leaving the packet in progress alone.
SinkClearKeepsBuffer ==
  /\ k_pc = "run"
  /\ rst_left = 0
  /\ clears < MaxClears
  /\ clears' = clears + 1
  /\ packets' = <<>>
  /\ packet_metadata' = <<>>
  /\ acc_log' = <<>>
  /\ UNCHANGED <<cur_pkt, in_pkt>>
  /\ UNCHANGED <<sig, nsig, ran, srcVars, sinkCtl, manVars, qVars, bpCtl, bpVars,
                 rst_n, rst_left, rst_count, rst_in_pkt, rst_packets, rst_manual,
                 rst_sent, rst_valid, scnVars>>

\* AvalonSTSink.clear(), called by the scenario between the steps of run().
SinkClear ==
  /\ k_pc = "run"
  /\ rst_left = 0
  /\ clears < MaxClears
  /\ clears' = clears + 1
  /\ packets' = <<>>
  /\ packet_metadata' = <<>>
  /\ cur_pkt' = <<>>
  /\ in_pkt' = FALSE
  /\ acc_log' = <<>>
  /\ UNCHANGED <<sig, nsig, ran, srcVars, sinkCtl, manVars, qVars, bpCtl, bpVars,
                 rst_n, rst_left, rst_count, rst_in_pkt, rst_packets, rst_manual,
                 rst_sent, rst_valid, scnVars>>

\* --------------------------------------------------------- create_packet
BYTES_PER_WORD == 8
MIN_PACKET_BYTES == 46
MAX_PACKET_BYTES == 1500
START_VALUE == 4096

\* The deterministic values of the pattern argument; "other" stands for any
\* name the function does not know.
PacketPatterns == {"incrementing", "all_ones", "all_zeros", "alternating", "other"}

\* A 64-bit word as its 8 bytes, least significant first: of a value below
\* 2^24, and of one byte repeated.
WordBytes(v) == [k \in 1..BYTES_PER_WORD |->
                  IF k <= 3 THEN (v \div (256 ^ (k - 1))) % 256 ELSE 0]
Uniform(b) == [k \in 1..BYTES_PER_WORD |-> b]
\* 0xDEADBEEFCAFEBABE + i, for i below 2^14.
DeadBeefPlus(i) ==
  <<(47806 + i) % 256, (47806 + i) \div 256, 254, 202, 239, 190, 173, 222>>

\* `last_word & ((1 << (valid_bytes_last * 8)) - 1)`
MaskWord(w, valid_bytes_last) ==
  [k \in 1..BYTES_PER_WORD |-> IF k <= valid_bytes_last THEN w[k] ELSE 0]

\* SizeRejected also refusing the two limits.
SizeRejectedAtLimits(num_bytes) ==
  num_bytes <= MIN_PACKET_BYTES \/ num_bytes >= MAX_PACKET_BYTES

\* `if num_bytes < MIN_PACKET_BYTES or num_bytes > MAX_PACKET_BYTES`
SizeRejected(num_bytes) ==
  num_bytes < MIN_PACKET_BYTES \/ num_bytes > MAX_PACKET_BYTES

\* NumWords rounding down and adding one.
NumWordsFloorPlusOne(num_bytes) == num_bytes \div BYTES_PER_WORD + 1

\* `(num_bytes + BYTES_PER_WORD - 1) // BYTES_PER_WORD`
NumWords(num_bytes) == (num_bytes + BYTES_PER_WORD - 1) \div BYTES_PER_WORD

\* The word of index i (0-based) that a pattern generates.
PatternWord(pattern, start_value, i) ==
  CASE pattern = "incrementing" -> WordBytes(start_value + i)
    [] pattern = "all_ones"     -> Uniform(255)
    [] pattern = "all_zeros"    -> Uniform(0)
    [] pattern = "alternating"  -> IF i % 2 = 0 THEN Uniform(170) ELSE Uniform(85)
    [] OTHER                    -> DeadBeefPlus(i)

\* create_packet(num_bytes, pattern, start_value): raised, or the words and
\* the empty count of the last one.
create_packet(num_bytes, pattern, start_value) ==
  IF SizeRejected(num_bytes)
  THEN [raised |-> TRUE, words |-> <<>>, empty_last |-> 0]
  ELSE LET num_words        == NumWords(num_bytes)
           empty_last       == (num_words * BYTES_PER_WORD) - num_bytes
           valid_bytes_last == BYTES_PER_WORD - empty_last
           words == [i \in 1..num_words |-> PatternWord(pattern, start_value, i - 1)]
       IN  [raised     |-> FALSE,
            words      |-> IF empty_last > 0 /\ num_words > 0
                           THEN [words EXCEPT ![num_words] =
                                   MaskWord(words[num_words], valid_bytes_last)]
                           ELSE words,
            empty_last |-> empty_last]

\* The scenario calls create_packet.
CreatePacket ==
  /\ cp_pc = "call"
  /\ cp_pc' = "done"
  /\ cp_out' = create_packet(cp_num_bytes, cp_pattern, START_VALUE)
  /\ UNCHANGED <<sig, nsig, ran, srcVars, sinkCtl, sinkVars, manVars, qVars, bpCtl,
                 bpVars, rst_n, rst_left, rst_count, rst_in_pkt, rst_packets,
                 rst_manual, rst_sent, rst_valid, clears, sr_count, sr_level,
                 cp_num_bytes, cp_pattern, wfVars, muxVars, idleVars>>

\* ------------------------------------------------------- wait_for_packet
\* The values of min_packets that are followed.
MinPackets == 1..MaxQueued

\* One pass through the loop of wait_for_packet with `left` iterations still
\* to begin after it: the loop is over, the count is reached, or the
\* coroutine awaits the next edge.
WaitLoop(left, count, m) ==
  IF left = 0 THEN [pc |-> "done", result |-> FALSE, left |-> 0]
  ELSE IF count >= m THEN [pc |-> "done", result |-> TRUE, left |-> 0]
  ELSE [pc |-> "wait", result |-> FALSE, left |-> left - 1]

\* wait_for_packet(sink, timeout_cycles, min_packets) is called by the
\* scenario and runs up to its first await.
WaitForPacket(timeout_cycles, min_packets) ==
  /\ wf_pc = "off"
  /\ k_pc = "run"
  /\ src_pc = "idle"
  /\ rst_left = 0
  /\ AllRan
  /\ wf_T' = timeout_cycles
  /\ wf_m' = min_packets
  /\ wf_edges' = 0
  /\ LET w == WaitLoop(timeout_cycles, Len(packets), min_packets)
     IN  /\ wf_pc' = w.pc
         /\ wf_result' = w.result
         /\ wf_left' = w.left
         /\ ran' = IF w.pc = "wait" THEN ran \cup {"wf"} ELSE ran
  /\ wf_count' = Len(packets)
  /\ UNCHANGED <<sig, nsig, srcVars, sinkCtl, sinkVars, manVars, qVars, bpCtl,
                 bpVars, rst_n, rst_left, rst_count, rst_in_pkt, rst_packets,
                 rst_manual, rst_sent, rst_valid, clears, sr_count, sr_level,
                 cpVars, muxVars, idleVars>>

\* wait_for_packet resumed on an edge.
WaitStep ==
  /\ wf_pc = "wait"
  /\ "wf" \notin ran
  /\ ran' = ran \cup {"wf"}
  /\ wf_edges' = wf_edges + 1
  /\ LET w == WaitLoop(wf_left, Len(packets), wf_m)
     IN  /\ wf_pc' = w.pc
         /\ wf_result' = w.result
         /\ wf_left' = w.left
  /\ wf_count' = Len(packets)
  /\ UNCHANGED <<sig, nsig, srcVars, sinkCtl, sinkVars, manVars, qVars, bpCtl,
                 bpVars, rst_n, rst_left, rst_count, rst_in_pkt, rst_packets,
                 rst_manual, rst_sent, rst_valid, clears, sr_count, sr_level,
                 cpVars, wf_T, wf_m, muxVars, idleVars>>

\* ------------------------------------------- two ports and a multiplexer
\* The rest of the state, which the two-port actions leave alone.
singlePort == <<srcVars, manVars, qVars, bpCtl, bpVars, rst_n, rst_left, rst_count,
                rst_in_pkt, rst_packets, rst_manual, rst_sent, rst_valid, clears,
                sr_count, sr_level, cpVars, wfVars, idleVars>>

\* The drain task of port p as DrainStep sees it.
PortState(p) == [queue |-> drain[p].queue, cur |-> drain[p].cur,
                 idx |-> drain[p].idx, pc |-> drain[p].pc, n |-> drain[p].n,
                 s |-> nport[p]]

\* queue_packet on the queued source of port p (first use: the task is
\* started); one packet of at least one word per port.
QueueOn(p, words) ==
  /\ k_pc = "run"
  /\ AllRan
  /\ drain[p].pc = "off"
  /\ words # <<>>
  /\ drain' = [drain EXCEPT ![p] =
                [NoTask EXCEPT !.queue = <<[words |-> words, empty_last |-> 0,
                                            error |-> FALSE]>>,
                               !.pc = "scheduled"]]
  /\ offered' = [offered EXCEPT ![p] = words]
  /\ UNCHANGED <<sig, nsig, ran, sinkCtl, sinkVars, singlePort, port, nport, mux_sel,
                 contended>>

\* _send_task of port p up to its first await.
PortBegin(p) ==
  /\ drain[p].pc = "scheduled"
  /\ drain' = [drain EXCEPT ![p].pc = "init"]
  /\ nport' = [nport EXCEPT ![p] = Idle(nport[p])]
  /\ ran' = ran \cup {p}
  /\ UNCHANGED <<sig, nsig, sinkCtl, sinkVars, singlePort, port, mux_sel, offered,
                 contended>>

\* _send_task of port p resumed on an edge.
PortStep(p) ==
  /\ drain[p].pc \in {"init", "idle", "wait", "gap"}
  /\ p \notin ran
  /\ ran' = ran \cup {p}
  /\ LET q == DrainStep(PortState(p), port[p])
     IN  /\ drain' = [drain EXCEPT ![p] = [queue |-> q.queue, cur |-> q.cur,
                                           idx |-> q.idx, pc |-> q.pc, n |-> q.n]]
         /\ nport' = [nport EXCEPT ![p] = q.s]
  /\ UNCHANGED <<sig, nsig, sinkCtl, sinkVars, singlePort, port, mux_sel, offered,
                 contended>>

\* ------------------------------- the two sources next to each other
\* One packet is given to both sources in the same timestep: send_packet on
\* the single port, queue_packet on a queued source driving port A.
SendBoth(words, empty_last, error) ==
  /\ src_pc = "idle" /\ sent = <<>>
  /\ drain["A"].pc = "off"
  /\ words # <<>>
  /\ AllRan
  /\ nsig' = Idle(nsig)
  /\ src_pc' = "init"
  /\ src_words' = words
  /\ src_empty_last' = empty_last
  /\ src_error' = error
  /\ src_i' = 0
  /\ src_acc' = 0
  /\ sent' = Append(sent, [words |-> words, empty_last |-> empty_last, error |-> error])
  /\ ran' = ran \cup {"src"}
  /\ drain' = [drain EXCEPT !["A"] =
                [NoTask EXCEPT !.queue = <<[words |-> words, empty_last |-> empty_last,
                                            error |-> error]>>,
                               !.pc = "scheduled"]]
  /\ offered' = [offered EXCEPT !["A"] = words]
  /\ UNCHANGED <<sig, sinkCtl, sinkVars, manVars, qVars, bpCtl, bpVars, rstPulseVars,
                 sr_count, sr_level, cpVars, wfVars, idleVars, port, nport, mux_sel,
                 contended>>

\* The scenario writes the same ready value on both ports.
ReadyBoth(v) ==
  /\ src_pc # "idle" \/ sent = <<>>
  /\ AllRan
  /\ nsig.ready = sig.ready
  /\ nsig.ready # v
  /\ nsig' = [nsig EXCEPT !.ready = v]
  /\ nport' = [nport EXCEPT !["A"].ready = v]
  /\ UNCHANGED <<sig, ran, sinkCtl, sinkVars, singlePort, port, drain, mux_sel, offered,
                 contended>>

\* The next rising edge on both ports.
EdgeBoth ==
  /\ AllRan
  /\ sig' = nsig
  /\ port' = [port EXCEPT !["A"] = nport["A"]]
  /\ ran' = {}
  /\ UNCHANGED <<nsig, sinkCtl, sinkVars, singlePort, nport, drain, mux_sel, offered,
                 contended>>

\* A port shows the first word of a packet.
ShowsStart(s) == s.valid = 1 /\ s.sop = 1

\* MuxGrant preferring port B.
MuxGrantBFirst(sel, a, b) ==
  IF sel # "none" THEN sel
  ELSE IF ShowsStart(b) THEN "B"
  ELSE IF ShowsStart(a) THEN "A"
  ELSE "none"

\* The port the multiplexer serves: the one whose packet is in transfer,
\* else A if it shows a start, else B if it shows a start.
MuxGrant(sel, a, b) ==
  IF sel # "none" THEN sel
  ELSE IF ShowsStart(a) THEN "A"
  ELSE IF ShowsStart(b) THEN "B"
  ELSE "none"

\* The egress signals: those of the served port, under C's ready.
MuxOut(g, a, b, ready) ==
  IF g = "none" THEN [ResetSignals EXCEPT !.ready = ready]
  ELSE LET s == IF g = "A" THEN a ELSE b
       IN  [s EXCEPT !.ready = ready]

\* The ready of ingress port p: C's ready for the served port, 0 for the
\* other.
MuxReady(p, g, ready) == IF g = p THEN ready ELSE 0

\* The port in transfer after an edge: a served port whose word is taken
\* stays in transfer until its end word is taken.
MuxNextSel(sel, a, b, ready) ==
  LET g == MuxGrant(sel, a, b)
      s == IF g = "A" THEN a ELSE b
  IN  IF g # "none" /\ s.valid = 1 /\ ready = 1
      THEN IF s.eop = 1 THEN "none" ELSE g
      ELSE sel

\* The next rising edge with the multiplexer between the ingress ports and
\* port C: the multiplexer takes the word it was shown, the writes of the
\* coroutines take effect, and its outputs follow.
MuxEdge ==
  /\ AllRan
  /\ LET sel1 == MuxNextSel(mux_sel, port["A"], port["B"], sig.ready)
         g1   == MuxGrant(sel1, nport["A"], nport["B"])
     IN  /\ mux_sel' = sel1
         /\ port' = [p \in Ports |->
                       [nport[p] EXCEPT !.ready = MuxReady(p, g1, nsig.ready)]]
         /\ sig' = MuxOut(g1, nport["A"], nport["B"], nsig.ready)
         /\ nsig' = MuxOut(g1, nport["A"], nport["B"], nsig.ready)
  /\ contended' = (contended \/ (ShowsStart(nport["A"]) /\ ShowsStart(nport["B"])))
  /\ ran' = {}
  /\ UNCHANGED <<sinkCtl, sinkVars, singlePort, nport, drain, offered>>

\* ---------------------------------------------------------------- clock
\* The next rising edge: every suspended coroutine has run on this one.
\* A hand-driven word stays on the port for at most MaxHold edges, and
\* through a reset pulse begun while it is there.  A drain task that has
\* ended on an exception may leave its last word on the port for good: the
\* run is followed until the sink's buffer exceeds MaxLen words.
ClockEdge ==
  /\ AllRan
  /\ q_pc = "dead" => Len(cur_pkt) <= MaxLen
  /\ (ManualHeld /\ rst_left = 0) => mheld < MaxHold
  /\ mheld' = IF ManualHeld /\ rst_left = 0 THEN mheld + 1 ELSE mheld
  /\ sig' = nsig
  /\ ran' = {}
  /\ UNCHANGED <<nsig, srcVars, sinkCtl, sinkVars, manual, qVars, bpCtl, bpVars, rstVars>>

\* ------------------------------------------------------- specifications
SinkActions ==
  \/ \E ar \in BOOLEAN : StartSink(ar)
  \/ SinkBegin
  \/ SinkStep
  \/ \E v \in {0, 1} : ExternalReady(v)

SyncActions ==
  \/ \E w \in WordLists, m \in Metas : SendPacket(w, m[1], m[2])
  \/ SrcStep

ManualActions ==
  \/ \E d \in Words, sop \in {0, 1}, eop \in {0, 1} : ManualDrive(d, sop, eop)
  \/ ManualRelease

\* The blocking source wired to AvalonSTSink.
Next == SyncActions \/ SinkActions \/ ClockEdge

Spec == Init /\ [][Next]_vars

QueuedActions ==
  \/ \E w \in WordLists, m \in Metas : QueuePacket(w, m[1], m[2])
  \/ QBegin
  \/ QStep

\* The queued source wired to AvalonSTSink.
NextQ == QueuedActions \/ SinkActions \/ ClockEdge

SpecQ == Init /\ [][NextQ]_vars

BPSinkActions ==
  \/ StartBPSink(FALSE, <<>>)
  \/ \E pat \in Patterns : StartBPSink(TRUE, pat)
  \/ BPBegin
  \/ BPStep

\* The blocking source wired to AvalonSTSinkWithBackpressure.
NextBP == SyncActions \/ BPSinkActions \/ ClockEdge

SpecBP == Init /\ [][NextBP]_vars

\* Hand-driven words on the port of AvalonSTSinkWithBackpressure.
NextBPM == ManualActions \/ BPSinkActions \/ ClockEdge

SpecBPM == Init /\ [][NextBPM]_vars

\* The blocking source and hand-driven words, wired to AvalonSTSink.
NextM == SyncActions \/ ManualActions \/ SinkActions \/ ClockEdge

SpecM == Init /\ [][NextM]_vars

\* Hand-driven words on the port of either sink class.
NextSinks == ManualActions \/ SinkActions \/ BPSinkActions \/ ClockEdge

SpecSinks == Init /\ [][NextSinks]_vars

\* Both sink classes observing one port, with hand-driven words and ready
\* written through set_ready().
NextTwoSinks ==
  \/ ManualActions
  \/ StartBothSinks
  \/ SinkBegin
  \/ SinkStep
  \/ BPBegin
  \/ BPStep
  \/ \E v \in {0, 1} : SetReady(v)
  \/ ClockEdge

SpecTwoSinks == Init /\ [][NextTwoSinks]_vars

\* send_packet and the drain task given the same packet and the same ready.
NextBoth ==
  \/ \E w \in WordLists, m \in Metas : SendBoth(w, m[1], m[2])
  \/ \E v \in {0, 1} : ReadyBoth(v)
  \/ SrcStep
  \/ PortBegin("A")
  \/ PortStep("A")
  \/ EdgeBoth

SpecBoth == Init /\ [][NextBoth]_vars

\* Either source, wired to AvalonSTSink.
NextSrc == SyncActions \/ QueuedActions \/ SinkActions \/ ClockEdge

SpecSrc == Init /\ [][NextSrc]_vars

\* The clock never stops, and every suspended coroutine is resumed on
\* every edge.
Fairness ==
  /\ WF_vars(ClockEdge)
  /\ WF_vars(SrcStep)
  /\ WF_vars(SinkBegin)
  /\ WF_vars(SinkStep)
  /\ WF_vars(QBegin)
  /\ WF_vars(QStep)

\* The same two wirings with the packet metadata left at its defaults
\* (empty_last=0, error=False), under fairness.
PlainSyncActions ==
  \/ \E w \in WordLists : SendPacket(w, 0, FALSE)
  \/ SrcStep

PlainQueuedActions ==
  \/ \E w \in WordLists : QueuePacket(w, 0, FALSE)
  \/ QBegin
  \/ QStep

NextPlain == PlainSyncActions \/ SinkActions \/ ClockEdge

NextPlainQ == PlainQueuedActions \/ SinkActions \/ ClockEdge

FairSpec == Init /\ [][NextPlain]_vars /\ Fairness

FairSpecQ == Init /\ [][NextPlainQ]_vars /\ Fairness

ResetActions == ResetPulse \/ RstStep

\* The blocking source and hand-driven words wired to AvalonSTSink, with a
\* reset pulse; the sends carry the default metadata.
NextR == PlainSyncActions \/ ManualActions \/ SinkActions \/ ResetActions \/ ClockEdge

SpecR == Init /\ [][NextR]_vars

\* The blocking source and hand-driven words wired to AvalonSTSink, with
\* clear().
NextC == SyncActions \/ ManualActions \/ SinkActions \/ SinkClear \/ ClockEdge

SpecC == Init /\ [][NextC]_vars

\* The queued source wired to AvalonSTSink, with reset_dut() called while
\* they run; the packets carry the default metadata.
ResetDutActions ==
  \/ \E c \in ResetLengths : ResetDut(c)
  \/ RstStep

NextRD == PlainQueuedActions \/ SinkActions \/ ResetDutActions \/ ClockEdge

SpecRD == Init /\ [][NextRD]_vars

\* The queued source wired to AvalonSTSink, with wait_for_packet; the packets
\* carry the default metadata.
WaitActions ==
  \/ \E T \in 0..MaxTimeout, m \in MinPackets : WaitForPacket(T, m)
  \/ WaitStep

NextWF == PlainQueuedActions \/ SinkActions \/ WaitActions \/ ClockEdge

SpecWF == Init /\ [][NextWF]_vars

\* A queued source on each ingress port of the multiplexer, and
\* AvalonSTSink on port C.
PortActions ==
  \/ \E p \in Ports, w \in WordLists : QueueOn(p, w)
  \/ \E p \in Ports : PortBegin(p)
  \/ \E p \in Ports : PortStep(p)

NextMux == PortActions \/ SinkActions \/ MuxEdge

SpecMux == Init /\ [][NextMux]_vars

\* create_packet applied to a byte count between MinSize and MaxSize and a
\* pattern name.
InitCP ==
  /\ InitTestbench
  /\ cp_pc = "call"
  /\ cp_num_bytes \in MinSize..MaxSize
  /\ cp_pattern \in PacketPatterns
  /\ cp_out = NoPacket

NextCP == CreatePacket

SpecCP == InitCP /\ [][NextCP]_vars

\* The blocking source wired to AvalonSTSinkWithBackpressure, with
\* set_ready(); the sends carry the default metadata.
NextSR == PlainSyncActions \/ BPSinkActions \/ (\E v \in {0, 1} : SetReady(v))
          \/ ClockEdge

SpecSR == Init /\ [][NextSR]_vars

\* The queued source wired to AvalonSTSink, with clear_queue(); the packets
\* carry the default metadata.
NextQC == PlainQueuedActions \/ ClearQueue \/ SinkActions \/ ClockEdge

SpecQC == Init /\ [][NextQC]_vars

\* The queued source wired to AvalonSTSink, with set_idle().
NextSI == PlainQueuedActions \/ SetIdle \/ SinkActions \/ ClockEdge

SpecSI == Init /\ [][NextSI]_vars

\* The same wiring with the clock running.
FairSpecQC == Init /\ [][NextQC]_vars /\ Fairness
\* ================================================================ claims
\* Helpers of the statements below.
NonEmptyPacket(p) == p.words # <<>>
WordsOf(log) == LET f == SelectSeq(log, NonEmptyPacket)
                IN  [k \in 1..Len(f) |-> f[k].words]
MetaOf(log) == LET f == SelectSeq(log, NonEmptyPacket)
               IN  [k \in 1..Len(f) |-> [empty |-> f[k].empty_last,
                                         error |-> IF f[k].error THEN 1 ELSE 0]]
Front(log) == SubSeq(log, 1, Len(log) - 1)
\* The six signals a source drives.
Frame(s) == <<s.data, s.valid, s.sop, s.eop, s.empty, s.error>>
\* Word i (0-based) of an n-word packet as the framing rule states it.
FrameOfWord(words, i, empty_last, error) ==
  <<words[i + 1], 1,
    IF i = 0 THEN 1 ELSE 0,
    IF i = Len(words) - 1 THEN 1 ELSE 0,
    IF i = Len(words) - 1 THEN empty_last ELSE 0,
    IF error THEN 1 ELSE 0>>
MarkersClear(s) == s.valid = 0 /\ s.sop = 0 /\ s.eop = 0 /\ s.empty = 0 /\ s.error = 0
\* The step just taken resumed the given coroutine on the edge.
Resumed(a) == a \notin ran /\ a \in ran'

\* C1 -- Round-trip identity: with the sink always ready, every completed
\* send_packet of a packet with at least one word has appended exactly one
\* entry to sink.packets, equal to the word list, with metadata empty ==
\* empty_last and error == int(error); while a send is in progress the
\* history holds the earlier packets and at most the one being sent.
C1_RoundTrip ==
  (k_pc = "run" /\ always_ready) =>
    /\ src_pc = "idle" => /\ packets = WordsOf(sent)
                          /\ packet_metadata = MetaOf(sent)
    /\ src_pc # "idle" => \/ /\ packets = WordsOf(Front(sent))
                             /\ packet_metadata = MetaOf(Front(sent))
                          \/ /\ packets = WordsOf(sent)
                             /\ packet_metadata = MetaOf(sent)

\* A three-word packet with a non-zero empty count has been sent and
\* collected after an earlier packet.
C1_Witness ==
  /\ always_ready /\ src_pc = "idle" /\ Len(sent) = 2
  /\ Len(sent[1].words) = 2 /\ sent[1].error
  /\ Len(sent[2].words) = 3 /\ sent[2].empty_last = 3
  /\ packets = <<sent[1].words, sent[2].words>>
  /\ packet_metadata = <<[empty |-> 0, error |-> 1], [empty |-> 3, error |-> 0]>>
\* C2 -- Backpressure transparency: for any packet (equal neighbouring words
\* included) and any pattern with a ready segment, once the send has
\* completed the pattern-driven sink holds exactly the packet the
\* always-ready case collects, namely the word list sent.
C2_Transparency ==
  (/\ bp_pc = "run" /\ has_pattern
   /\ \E k \in 1..Len(ready_pattern) : ready_pattern[k][2]
   /\ src_pc = "idle" /\ Len(sent) = 1 /\ sent[1].words # <<>>)
  => bp_packets = <<sent[1].words>>

\* The same statement for packets whose neighbouring words all differ.
C2_DistinctNeighbours ==
  (/\ bp_pc = "run" /\ has_pattern
   /\ \E k \in 1..Len(ready_pattern) : ready_pattern[k][2]
   /\ src_pc = "idle" /\ Len(sent) = 1 /\ sent[1].words # <<>>
   /\ \A k \in 1..(Len(sent[1].words) - 1) : sent[1].words[k] # sent[1].words[k + 1])
  => bp_packets = <<sent[1].words>>
\* C3 -- Queue draining: if every enqueued packet has at least one word and
\* the peer asserts ready infinitely often, then the queued source drains:
\* again and again (and for good once the last packet has been enqueued)
\* get_queue_size() is 0 and the sink holds exactly the enqueued packets, in
\* enqueue order.
C3_QueueDrains ==
  ([](\A k \in 1..Len(enq) : enq[k].words # <<>>) /\ []<>(sig.ready = 1))
  => /\ []<>(get_queue_size = 0 /\ packets = WordsOf(enq))
     /\ [](Len(enq) = MaxQueued => <>[](get_queue_size = 0 /\ packets = WordsOf(enq)))

\* Two packets were enqueued while ready was toggled, and both are drained
\* and collected in order.
C3_Witness ==
  /\ ~always_ready /\ Len(enq) = 2 /\ get_queue_size = 0
  /\ Len(enq[1].words) = 3 /\ Len(enq[2].words) = 2 /\ enq[1].words # enq[2].words
  /\ packets = <<enq[1].words, enq[2].words>>
  /\ q_pc = "idle"
\* AvalonSTSink.run has just been resumed on an edge.
SinkResumed == k_pc = "run" /\ Resumed("sink")

\* C4 -- Transfer gating: on an edge where valid and ready are not both
\* asserted the assembler leaves _cur_pkt, _in_pkt, packets and
\* _packet_metadata unchanged; on an edge where both are asserted it
\* processes the word (a start word opens or closes a packet holding it, a
\* word inside a packet is added to it).
C4_TransferGating ==
  [][SinkResumed =>
       /\ ~(sig.valid = 1 /\ sig.ready = 1) =>
            UNCHANGED <<packets, cur_pkt, in_pkt, packet_metadata>>
       /\ (sig.valid = 1 /\ sig.ready = 1 /\ sig.sop = 1) =>
            IF sig.eop = 1
            THEN packets' = Append(packets, <<sig.data>>) /\ ~in_pkt'
            ELSE cur_pkt' = <<sig.data>> /\ in_pkt' /\ packets' = packets
       /\ (sig.valid = 1 /\ sig.ready = 1 /\ sig.sop = 0 /\ in_pkt) =>
            IF sig.eop = 1
            THEN packets' = Append(packets, Append(cur_pkt, sig.data)) /\ ~in_pkt'
            ELSE cur_pkt' = Append(cur_pkt, sig.data) /\ in_pkt' /\ packets' = packets
  ]_vars

\* The sink has run on an edge where a word inside a packet is offered and
\* ready is low: the packet in progress is as it was.
C4_Witness ==
  /\ k_pc = "run" /\ ~always_ready /\ "sink" \in ran
  /\ sig.valid = 1 /\ sig.ready = 0 /\ sig.sop = 0
  /\ in_pkt /\ Len(cur_pkt) = 1 /\ packets = <<>>

\* C5 -- Source framing: while word i of an n-word packet is presented,
\* valid = 1, sop = 1 iff i = 0, eop = 1 iff i = n-1, empty = empty_last on
\* the last word and 0 on the others, error = int(error) on every word; for
\* send_packet and for the drain task of the queued source, as written and as
\* seen on the port at the following edges.
C5_SourceFraming ==
  /\ src_pc = "wait" =>
       /\ src_i < Len(src_words)
       /\ Frame(nsig) = FrameOfWord(src_words, src_i, src_empty_last, src_error)
       /\ "src" \notin ran =>
            Frame(sig) = FrameOfWord(src_words, src_i, src_empty_last, src_error)
  /\ q_pc = "wait" =>
       /\ current_packet # <<>>
       /\ current_word_idx < Len(current_packet[1].words)
       /\ Frame(nsig) = FrameOfWord(current_packet[1].words, current_word_idx,
                                    current_packet[1].empty_last, current_packet[1].error)
       /\ "qsrc" \notin ran =>
            Frame(sig) = FrameOfWord(current_packet[1].words, current_word_idx,
                                     current_packet[1].empty_last, current_packet[1].error)

\* A one-word packet with a non-zero empty count is on the port: sop and eop
\* on the same word.
C5_Witness ==
  /\ src_pc = "wait" /\ "src" \notin ran
  /\ Len(src_words) = 1 /\ src_empty_last = 3
  /\ sig.valid = 1 /\ sig.sop = 1 /\ sig.eop = 1 /\ sig.empty = 3

\* C6 -- Hold and advance: a source waiting on word i finds that word on the
\* port at every edge it is resumed on (so the edge of acceptance is after
\* the one of presentation); if ready is not asserted on the edge it changes
\* nothing and keeps waiting on word i; if ready is asserted it presents
\* word i+1, or finishes the packet after the last word; and nothing else
\* changes the presented word in between.
C6_HoldAndAdvance ==
  [][/\ (src_pc = "wait" /\ Resumed("src")) =>
          /\ Frame(sig) = FrameOfWord(src_words, src_i, src_empty_last, src_error)
          /\ IF sig.ready = 1
             THEN IF src_i + 1 < Len(src_words)
                  THEN /\ src_pc' = "wait" /\ src_i' = src_i + 1
                       /\ Frame(nsig') = FrameOfWord(src_words, src_i + 1,
                                                     src_empty_last, src_error)
                  ELSE src_pc' = "fin"
             ELSE src_pc' = "wait" /\ src_i' = src_i /\ Frame(nsig') = Frame(nsig)
     /\ (src_pc = "wait" /\ ~Resumed("src")) =>
          src_pc' = "wait" /\ src_i' = src_i /\ Frame(nsig') = Frame(nsig)
     /\ (q_pc = "wait" /\ Resumed("qsrc")) =>
          LET p == current_packet[1]
          IN  /\ Frame(sig) = FrameOfWord(p.words, current_word_idx, p.empty_last, p.error)
              /\ IF sig.ready = 1
                 THEN IF current_word_idx + 1 < Len(p.words)
                      THEN /\ q_pc' = "wait" /\ current_word_idx' = current_word_idx + 1
                           /\ current_packet' = current_packet
                           /\ Frame(nsig') = FrameOfWord(p.words, current_word_idx + 1,
                                                         p.empty_last, p.error)
                      ELSE q_pc' = "gap"
                 ELSE /\ q_pc' = "wait" /\ current_word_idx' = current_word_idx
                      /\ Frame(nsig') = Frame(nsig)
     /\ (q_pc = "wait" /\ ~Resumed("qsrc")) =>
          q_pc' = "wait" /\ current_word_idx' = current_word_idx
          /\ Frame(nsig') = Frame(nsig)
  ]_vars

\* The second word of a three-word packet has been held through an edge on
\* which ready was low.
C6_Witness ==
  /\ src_pc = "wait" /\ "src" \in ran /\ src_i = 1 /\ Len(src_words) = 3
  /\ sig.ready = 0 /\ sig.valid = 1 /\ sig.data = src_words[2]
  /\ nsig.data = src_words[2] /\ src_acc = 1

\* C7 -- Idle presentation: when send_packet has been entered and when it is
\* about to return, valid, sop, eop, empty and error are 0 as written, and
\* they are 0 on the port at the edge before the first word and at the edge
\* after the last word was accepted; they stay 0 after the return.
C7_IdlePresentation ==
  /\ src_pc \in {"init", "fin"} => MarkersClear(nsig)
  /\ (src_pc \in {"init", "fin"} /\ "src" \notin ran) => MarkersClear(sig)
  /\ (src_pc = "idle" /\ sent # <<>>) => MarkersClear(nsig)

\* The edge after the last word of a packet with a non-zero empty count: the
\* port is idle and send_packet is about to return.
C7_Witness ==
  /\ src_pc = "fin" /\ "src" \notin ran
  /\ Len(src_words) = 2 /\ src_empty_last = 3 /\ src_acc = 2
  /\ sig.valid = 0 /\ sig.empty = 0 /\ sig.data = src_words[2]

\* C8 -- Blocking send: send_packet of n words returns only after ready has
\* been observed on n edges, one per word; if ready is asserted infinitely
\* often every send returns; on an edge where ready is low a waiting send
\* keeps waiting with valid asserted, whatever happens (no timeout, no
\* cancellation).
C8_BlockingSend ==
  /\ [](src_pc = "wait" => src_acc = src_i)
  /\ []((src_pc = "fin" \/ (src_pc = "idle" /\ sent # <<>>)) => src_acc = Len(src_words))
  /\ ([]<>(sig.ready = 1)) => [](src_pc # "idle" => <>(src_pc = "idle"))
  /\ [][(src_pc = "wait" /\ sig.ready = 0) =>
          (src_pc' = "wait" /\ src_i' = src_i /\ src_acc' = src_acc /\ nsig'.valid = 1)]_vars

\* A three-word send has returned after three acceptances, with ready
\* toggled by the scenario.
C8_Witness ==
  /\ ~always_ready /\ src_pc = "idle" /\ Len(sent) = 1
  /\ Len(src_words) = 3 /\ src_acc = 3 /\ packets = <<src_words>>

\* C9 -- Tolerated protocol violations: an accepted word without start while
\* the assembler is IDLE, with or without end, changes nothing (the
\* assembler stays IDLE, nothing is appended to packets or to the metadata);
\* and when the only hand-driven words are such words, the history holds
\* exactly the well-formed packets sent.
C9_ToleratedViolations ==
  /\ [][(SinkResumed /\ sig.valid = 1 /\ sig.ready = 1 /\ sig.sop = 0 /\ ~in_pkt) =>
          (~in_pkt' /\ UNCHANGED <<packets, cur_pkt, packet_metadata>>)]_vars
  /\ []((src_pc = "idle" /\ \A k \in 1..Len(manual) : manual[k].sop = 0) =>
          (packets = WordsOf(sent) /\ packet_metadata = MetaOf(sent) /\ ~in_pkt))

\* A hand-driven word with end and without start was on the port of the
\* always-ready sink, and the packet sent after it is the only entry.
C9_Witness ==
  /\ always_ready /\ mheld >= 1 /\ Len(manual) = 1
  /\ manual[1].sop = 0 /\ manual[1].eop = 1
  /\ src_pc = "idle" /\ Len(sent) = 1 /\ Len(sent[1].words) = 3
  /\ packets = <<sent[1].words>> /\ Len(packet_metadata) = 1

\* C10 (as stated) -- while IN_PACKET every accepted word, whatever its
\* markers, is appended to the words accepted earlier in the packet.
C10_AppendAnyMarkers ==
  [][(SinkResumed /\ sig.valid = 1 /\ sig.ready = 1 /\ in_pkt) =>
       IF sig.eop = 1
       THEN packets' = Append(packets, Append(cur_pkt, sig.data))
       ELSE cur_pkt' = Append(cur_pkt, sig.data)]_vars

\* C10 (amended) -- while IN_PACKET every accepted word without start is
\* appended to the words accepted earlier in the packet, which are retained;
\* an accepted word with start restarts the packet: the earlier words are
\* dropped and the packet in progress holds that word only.
C10_AppendInPacket ==
  [][(SinkResumed /\ sig.valid = 1 /\ sig.ready = 1 /\ in_pkt) =>
       LET grown == IF sig.sop = 1 THEN <<sig.data>> ELSE Append(cur_pkt, sig.data)
       IN  IF sig.eop = 1
           THEN packets' = Append(packets, grown)
           ELSE cur_pkt' = grown /\ in_pkt' /\ packets' = packets]_vars

\* The middle word of a three-word packet has just been appended to the
\* first.
C10_Witness ==
  /\ k_pc = "run" /\ "sink" \in ran /\ sig.valid = 1 /\ sig.ready = 1
  /\ sig.sop = 0 /\ sig.eop = 0 /\ in_pkt /\ Len(cur_pkt) = 2
  /\ src_pc = "wait" /\ Len(src_words) = 3 /\ cur_pkt = SubSeq(src_words, 1, 2)
\* C11 (as stated) -- Packet close: an accepted word with end, while a
\* packet is in progress, appends one packet made of all the words of the
\* packet in progress and this one, with a metadata entry holding this
\* word's empty and error, and leaves the assembler IDLE with an empty
\* buffer.
C11_CloseAllWords ==
  [][(SinkResumed /\ sig.valid = 1 /\ sig.ready = 1 /\ sig.eop = 1 /\ in_pkt) =>
       /\ packets' = Append(packets, Append(cur_pkt, sig.data))
       /\ packet_metadata' =
            Append(packet_metadata, [empty |-> sig.empty, error |-> sig.error])
       /\ ~in_pkt' /\ cur_pkt' = <<>>]_vars

\* C11 (amended) -- Packet close: an accepted word with end, while a packet
\* is in progress, appends exactly one packet: all the words of the packet
\* in progress and this one when the word has no start, this word alone when
\* it has start; the metadata entry appended with it holds this word's empty
\* and error, and the assembler is left IDLE with an empty buffer.
C11_PacketClose ==
  [][(SinkResumed /\ sig.valid = 1 /\ sig.ready = 1 /\ sig.eop = 1 /\ in_pkt) =>
       /\ packets' = Append(packets, IF sig.sop = 1 THEN <<sig.data>>
                                     ELSE Append(cur_pkt, sig.data))
       /\ packet_metadata' =
            Append(packet_metadata, [empty |-> sig.empty, error |-> sig.error])
       /\ ~in_pkt' /\ cur_pkt' = <<>>]_vars

\* The last word of a two-word packet with a non-zero empty count has just
\* closed the packet: the first word went by with empty = 0.
C11_Witness ==
  /\ k_pc = "run" /\ "sink" \in ran /\ sig.valid = 1 /\ sig.ready = 1
  /\ sig.eop = 1 /\ sig.sop = 0 /\ sig.empty = 3
  /\ src_pc = "wait" /\ Len(src_words) = 2 /\ src_i = 1
  /\ packets = <<src_words>> /\ packet_metadata = <<[empty |-> 3, error |-> 0]>>
  /\ ~in_pkt /\ cur_pkt = <<>>
\* A reset pulse has been begun while a packet was in progress at the sink.
ResetMidPacket == rst_count > 0 /\ rst_in_pkt

\* Every hand-driven word on the port at or after the last reset has start
\* deasserted, and no send_packet was called after it.
NoStartSinceReset ==
  /\ Len(sent) = rst_sent
  /\ \A k \in 1..Len(manual) :
       (k > rst_manual \/ (k = rst_manual /\ rst_valid = 1)) => manual[k].sop = 0

\* C12 -- Reset at the sink: a reset asserted while the sink is mid-packet
\* forces the assembler to IDLE with an empty buffer (seen once the sink has
\* run on an edge of the reset with nothing offered), and no packet holding
\* a word accepted before the reset is appended afterwards: with traffic
\* that never asserts start after the reset, nothing is appended.
C12_ResetDiscards ==
  /\ (ResetMidPacket /\ rst_n = 0 /\ "sink" \in ran /\ "rst" \in ran
      /\ rst_left < RESET_CYCLES + RESET_DEASSERT_DELAY /\ sig.valid = 0)
       => (~in_pkt /\ cur_pkt = <<>>)
  /\ (ResetMidPacket /\ NoStartSinceReset) => Len(packets) = rst_packets

\* C13 -- Reset idempotence: when a send_packet of a fresh packet, called
\* after a reset asserted mid-packet, returns, the last entry of the history
\* is the fresh packet and the last metadata entry is its metadata.
C13_ResetIdempotence ==
  [][(ResetMidPacket /\ Len(sent) > rst_sent /\ src_words # <<>>
      /\ src_pc = "fin" /\ src_pc' = "idle") =>
       /\ packets' # <<>>
       /\ packets'[Len(packets')] = src_words
       /\ packet_metadata'[Len(packets')] =
            [empty |-> src_empty_last, error |-> IntOf(src_error)]]_vars

\* A start word was accepted, reset was pulsed with the packet open, and a
\* fresh three-word packet sent afterwards is the only entry.
C13_Witness ==
  /\ ResetMidPacket /\ rst_left = 0 /\ rst_n = 1
  /\ Len(manual) = 1 /\ manual[1].sop = 1 /\ manual[1].eop = 0
  /\ src_pc = "idle" /\ Len(sent) = 1 /\ rst_sent = 0 /\ Len(src_words) = 3
  /\ packets = <<src_words>> /\ ~in_pkt
\* log2 is log1, or log1 with one entry appended at its end.
SameOrOneMore(log1, log2) ==
  \/ log2 = log1
  \/ Len(log2) = Len(log1) + 1 /\ SubSeq(log2, 1, Len(log1)) = log1

\* C14 -- Append-only history: a step that is not a clear() call leaves
\* packets and the metadata as they were or appends one entry at the end of
\* both, the entries already there unchanged; only a step of run() appends;
\* and clear() empties both.
C14_AppendOnly ==
  [][/\ clears' = clears =>
          /\ SameOrOneMore(packets, packets')
          /\ SameOrOneMore(packet_metadata, packet_metadata')
          /\ Len(packets') - Len(packets) = Len(packet_metadata') - Len(packet_metadata)
          /\ packets' # packets => SinkResumed
     /\ clears' # clears => packets' = <<>> /\ packet_metadata' = <<>>
  ]_vars

\* Two packets have been collected one after the other, the first one still
\* in place, and no clear() was called.
C14_Witness ==
  /\ clears = 0 /\ src_pc = "idle" /\ Len(sent) = 2
  /\ Len(sent[1].words) = 2 /\ Len(sent[2].words) = 3
  /\ packets = <<sent[1].words, sent[2].words>>
  /\ Len(packet_metadata) = 2 /\ packet_metadata[1].empty = 3
\* The step just taken is a queue_packet call, a clear_queue call.
QueuePacketCalled == enq' # enq
ClearQueueCalled == qclears' # qclears
\* The drain task has just been resumed on an edge.
DrainResumed == q_pc \in {"init", "idle", "wait", "gap"} /\ Resumed("qsrc")

\* C15 -- queue_packet appends its (words, empty_last, error) to the tail of
\* the outstanding queue and completes within the call: no edge passes and
\* no signal is written; and whatever the number and timing of the calls,
\* after a drain or a clear_queue too, one _send_task has been started once
\* a packet was enqueued, and never a second one.
C15_QueuePacket ==
  /\ [][QueuePacketCalled =>
          /\ Len(enq') = Len(enq) + 1
          /\ packet_queue' = Append(packet_queue, enq'[Len(enq')])
          /\ UNCHANGED <<sig, nsig, ran, current_packet, current_word_idx>>]_vars
  /\ [](tasks_started = IF enq = <<>> THEN 0 ELSE 1)
  /\ [](running <=> enq # <<>>)
  /\ [][tasks_started' # tasks_started => (enq = <<>> /\ q_pc' = "scheduled")]_vars

\* A packet was enqueued and cleared, and a second one was enqueued after
\* the clear: it waits at the tail and no second task was started.
C15_Witness ==
  /\ qclears = 1 /\ qclear_enq = 1 /\ Len(enq) = 2 /\ q_done = 0
  /\ packet_queue = <<enq[2]>> /\ current_packet = <<>>
  /\ tasks_started = 1 /\ q_pc \in {"idle", "wait", "gap"}

\* C16 -- FIFO drain: the drain task removes nothing from the outstanding
\* queue but its head, which becomes the packet in flight; it takes a packet
\* only when none is in flight and keeps the one in flight until it clears
\* the slot, which it does only on an edge where the final word of that
\* packet is on the port and ready is observed; without clear_queue the
\* packets done, in flight and waiting are the enqueued ones in enqueue
\* order, and the sink collects them in that order.
C16_FifoDrain ==
  /\ [][DrainResumed =>
          /\ packet_queue' = packet_queue
             \/ (packet_queue # <<>> /\ packet_queue' = Tail(packet_queue)
                 /\ current_packet = <<>>
                 /\ current_packet' = <<Head(packet_queue)>>)
          /\ (current_packet # <<>> /\ current_packet' # <<>>) =>
               current_packet' = current_packet
          /\ (current_packet # <<>> /\ current_packet' = <<>>) =>
               /\ q_pc = "wait" /\ sig.ready = 1
               /\ current_word_idx = Len(current_packet[1].words) - 1
               /\ Frame(sig) = FrameOfWord(current_packet[1].words, current_word_idx,
                                           current_packet[1].empty_last,
                                           current_packet[1].error)]_vars
  /\ [](qclears = 0 =>
          /\ q_done + get_queue_size = Len(enq)
          /\ SubSeq(enq, q_done + 1, Len(enq)) = current_packet \o packet_queue)
  /\ []((qclears = 0 /\ \A k \in 1..Len(enq) : enq[k].words # <<>>) =>
          /\ Len(packets) <= Len(enq)
          /\ packets = WordsOf(SubSeq(enq, 1, Len(packets))))

\* The first of two different packets has been sent whole and collected;
\* the second, enqueued while the first was in flight, has been taken next.
C16_Witness ==
  /\ qclears = 0 /\ Len(enq) = 2 /\ enq[1].words # enq[2].words
  /\ Len(enq[1].words) = 2 /\ q_done = 1
  /\ current_packet = <<enq[2]>> /\ packet_queue = <<>> /\ q_pc = "wait"
  /\ packets = <<enq[1].words>>
\* C17 -- clear_queue() empties the outstanding queue, drops the packet in
\* flight and forces the port idle, without stopping the drain task: until
\* another packet is enqueued no word is presented, and none is transferred
\* to the sink.
C17_ClearQueue ==
  /\ [][ClearQueueCalled =>
          /\ packet_queue' = <<>> /\ current_packet' = <<>>
          /\ MarkersClear(nsig')
          /\ q_pc' = q_pc]_vars
  /\ []((qclears > 0 /\ Len(enq) = qclear_enq) => nsig.valid = 0)
  /\ [][(qclears > 0 /\ Len(enq) = qclear_enq /\ SinkResumed) =>
          UNCHANGED <<packets, cur_pkt, in_pkt, packet_metadata>>]_vars

\* What does hold of clear_queue(): the queue and the slot are empty after
\* it, get_queue_size() is 0, and the task is where it was.
C17_ClearsBookkeeping ==
  [][ClearQueueCalled =>
       /\ packet_queue' = <<>> /\ current_packet' = <<>> /\ current_word_idx' = 0
       /\ get_queue_size' = 0
       /\ q_pc' = q_pc /\ nsig' = nsig]_vars

\* C18 -- get_queue_size() is the number of packets in the outstanding
\* queue plus one if a packet is in flight; while clear_queue is not used it
\* is the number of packets enqueued minus the number whose final word was
\* observed accepted, and it is 0 exactly when every enqueued packet has
\* been accepted whole.
C18_QueueSize ==
  /\ get_queue_size = Len(packet_queue) + Cardinality({k \in 1..Len(current_packet) : TRUE})
  /\ Len(current_packet) <= 1
  /\ qclears = 0 =>
       /\ get_queue_size = Len(enq) - q_done
       /\ get_queue_size = 0 <=> q_done = Len(enq)

\* Two packets were enqueued, the first has been accepted whole and the
\* second is in flight with nothing waiting: the size is 1.
C18_Witness ==
  /\ qclears = 0 /\ Len(enq) = 2 /\ q_done = 1
  /\ current_packet = <<enq[2]>> /\ packet_queue = <<>> /\ get_queue_size = 1
  /\ q_pc = "wait" /\ current_word_idx = 1

\* C19 -- Inter-packet gap: on the edge where the final word of the packet
\* in flight is observed accepted the task clears the slot, writes the idle
\* state and takes nothing from the queue; the idle state is on the port at
\* the next edge, and it is on that edge that the task takes the next
\* waiting packet and presents its first word.
C19_InterPacketGap ==
  /\ [][(DrainResumed /\ q_pc = "wait" /\ sig.ready = 1 /\ current_packet # <<>>
         /\ current_word_idx + 1 >= Len(current_packet[1].words)) =>
          /\ q_pc' = "gap" /\ current_packet' = <<>>
          /\ MarkersClear(nsig')
          /\ packet_queue' = packet_queue]_vars
  /\ [](q_pc = "gap" => (current_packet = <<>> /\ MarkersClear(nsig)))
  /\ []((q_pc = "gap" /\ "qsrc" \notin ran) => MarkersClear(sig))
  /\ [][(DrainResumed /\ q_pc = "gap" /\ packet_queue # <<>>
         /\ Head(packet_queue).words # <<>>) =>
          /\ sig.valid = 0
          /\ current_packet' = <<Head(packet_queue)>> /\ q_pc' = "wait"
          /\ Frame(nsig') = FrameOfWord(Head(packet_queue).words, 0,
                                        Head(packet_queue).empty_last,
                                        Head(packet_queue).error)]_vars

\* The first word of the second packet has just been presented, on the edge
\* that showed the port idle after the first packet.
C19_Witness ==
  /\ Len(enq) = 2 /\ q_done = 1 /\ qclears = 0
  /\ q_pc = "wait" /\ "qsrc" \in ran /\ current_packet = <<enq[2]>>
  /\ current_word_idx = 0
  /\ sig.valid = 0 /\ nsig.valid = 1 /\ nsig.sop = 1 /\ nsig.data = enq[2].words[1]
  /\ packets = <<enq[1].words>>
\* The segment (1-based) of a pattern that covers edge n (0-based) of its
\* period, and the level it asks for.
RECURSIVE SegmentAt(_, _)
SegmentAt(pat, n) ==
  IF n < pat[1][1] THEN 1 ELSE 1 + SegmentAt(Tail(pat), n - pat[1][1])
LevelAt(pat, n) == IF pat[SegmentAt(pat, n)][2] THEN 1 ELSE 0

\* C20 -- Pattern-driven readiness: in pattern mode, the ready level the
\* sink has driven for the edge that follows the n-th one it ran on is the
\* level of the segment that covers edge n mod period of the pattern, each
\* segment covering exactly its holdCycles edges and the last one being
\* followed by segment 0; that level is on the port at that edge;
\* pattern_idx is that segment; and the task never stops.
C20_PatternReady ==
  /\ []((bp_pc = "run" /\ has_pattern) =>
          /\ nsig.ready = LevelAt(ready_pattern, bp_edges)
          /\ "bpsink" \notin ran => sig.ready = LevelAt(ready_pattern, bp_edges)
          /\ pattern_idx + 1 = SegmentAt(ready_pattern, bp_edges)
          /\ ready_state = ready_pattern[pattern_idx + 1][2])
  /\ [][bp_pc = "run" => bp_pc' = "run"]_vars

\* With the pattern (2, True), (1, False) a packet of three words has been
\* collected: the pattern has wrapped to segment 0 on the way, and stands in
\* its not-ready segment again.
C20_Witness ==
  /\ bp_pc = "run" /\ has_pattern
  /\ ready_pattern = <<<<2, TRUE>>, <<1, FALSE>>>>
  /\ bp_packets = <<<<1, 2, 1>>>>
  /\ pattern_idx = 1 /\ bp_edges = 2 /\ nsig.ready = 0

\* A step that is a set_ready() call; a step on which the pattern task passes
\* a segment boundary; the step on which run() begins.
SetReadyCalled == sr_count' # sr_count
SegmentBoundary ==
  /\ has_pattern /\ bp_pc = "run" /\ Resumed("bpsink")
  /\ \/ bp_edges' = 0
     \/ SegmentAt(ready_pattern, bp_edges') # SegmentAt(ready_pattern, bp_edges)
RunBegins == bp_pc = "scheduled" /\ bp_pc' = "run"
\* The first edge (0-based, within the period) of segment k (1-based).
SegmentStart(pat, k) == PatternPeriod(SubSeq(pat, 1, k - 1))

C22_AlwaysReady ==
  /\ []((k_pc = "run" /\ always_ready) => nsig.ready = 1)
  /\ [][(SinkResumed /\ always_ready /\ sig.valid = 1) =>
          /\ sig.ready = 1
          /\ <<packets', packet_metadata', cur_pkt', in_pkt'>>
               = LET st == Assemble(SinkState, sig)
                 IN  <<st.packets, st.metadata, st.cur_pkt, st.in_pkt>>]_vars

C24_ByteLength ==
  (cp_pc = "done" /\ ~cp_out.raised) =>
    LET n == Len(cp_out.words)
    IN  /\ n >= 1
        /\ 8 * (n - 1) < cp_num_bytes /\ cp_num_bytes <= 8 * n
        /\ 0 <= cp_out.empty_last /\ cp_out.empty_last < 8
        /\ 8 * (n - 1) + (8 - cp_out.empty_last) = cp_num_bytes

\* create_packet(100) has returned 13 words with 4 empty bytes in the last.
C24_Witness ==
  /\ cp_pc = "done" /\ ~cp_out.raised
  /\ cp_num_bytes = 100
  /\ Len(cp_out.words) = 13 /\ cp_out.empty_last = 4

\* The range of the function's documentation.
ETH_MIN_BYTES == 64
ETH_MAX_BYTES == 1518

\* C25 -- Documented Ethernet range: create_packet returns a packet for
\* every num_bytes from 64 to 1518 (1518 in particular) and raises for
\* every size outside 64..1518.
C25_EthernetRange ==
  cp_pc = "done" =>
    /\ cp_num_bytes \in ETH_MIN_BYTES..ETH_MAX_BYTES
         => ~cp_out.raised /\ cp_out.words # <<>>
    /\ cp_num_bytes \notin ETH_MIN_BYTES..ETH_MAX_BYTES => cp_out.raised

\* C26 -- Timeout as a value: wait_for_packet returns True when the sink's
\* packet count has reached min_packets by the edge it returns on (the
\* timeout_cycles-th at the latest, or the call itself when the count is
\* already there) and False otherwise; it has awaited at most
\* timeout_cycles edges.
C26_TimeoutValue ==
  wf_pc = "done" =>
    /\ wf_result <=> wf_count >= wf_m
    /\ wf_edges <= wf_T

\* C28 -- Order preservation of sequential sends: whatever the readiness
\* mode and the idle gap between calls, once k blocking send_packet calls
\* have completed sink.packets is the list of the k word lists (of at least
\* one word) in call order; during a send it holds the earlier ones in
\* order and at most the one being sent; and the history only grows at its
\* end.
C28_OrderPreserved ==
  /\ [](k_pc = "run" =>
          /\ src_pc = "idle" => packets = WordsOf(sent)
          /\ src_pc # "idle" => packets \in {WordsOf(Front(sent)), WordsOf(sent)})
  /\ [][packets' # packets =>
          /\ Len(packets') = Len(packets) + 1
          /\ SubSeq(packets', 1, Len(packets)) = packets]_vars

\* Two different packets have been sent one after the other to a sink whose
\* ready is driven by the scenario, and are collected in call order.
C28_Witness ==
  /\ k_pc = "run" /\ ~always_ready /\ src_pc = "idle"
  /\ Len(sent) = 2
  /\ sent[1].words # <<>> /\ sent[2].words # <<>>
  /\ sent[1].words # sent[2].words
  /\ packets = <<sent[1].words, sent[2].words>>

\* The pattern-mode run() has just been resumed on an edge where it reads
\* valid and ready asserted.
PatternAccepts ==
  /\ bp_pc = "run" /\ has_pattern /\ Resumed("bpsink")
  /\ sig.valid = 1 /\ sig.ready = 1

\* C30 -- Legacy duplicate suppression: in pattern mode an accepted word is
\* appended to the packet in progress exactly when the previous edge was not
\* an accepted transfer, or the word is a start word, or its data differs
\* from the last recorded data (the last word of the packet in progress); so
\* a word held across several accepted edges is recorded once.
C30_DuplicateSuppression ==
  /\ []((bp_pc = "run" /\ has_pattern /\ bp_in_pkt) =>
          /\ bp_cur_pkt # <<>>
          /\ last_data = bp_cur_pkt[Len(bp_cur_pkt)])
  /\ [][PatternAccepts =>
          LET start  == sig.sop = 1
              base   == IF start THEN <<>> ELSE bp_cur_pkt
              inprog == start \/ bp_in_pkt
              fresh  == \/ ~last_valid_ready
                        \/ start
                        \/ sig.data # bp_cur_pkt[Len(bp_cur_pkt)]
              now    == IF inprog /\ fresh THEN Append(base, sig.data) ELSE base
          IN  IF sig.eop = 1 /\ inprog
              THEN bp_packets' = Append(bp_packets, now) /\ bp_cur_pkt' = <<>>
              ELSE bp_packets' = bp_packets /\ bp_cur_pkt' = now]_vars
  /\ [][(PatternAccepts /\ last_valid_ready /\ bp_in_pkt /\ sig.sop = 0
          /\ sig.eop = 0 /\ sig.data = last_data)
         => bp_cur_pkt' = bp_cur_pkt]_vars

\* A start word 1 and then a word 2 were driven by hand; word 2 has been
\* accepted on two edges running and stands once in the packet in progress.
C30_Witness ==
  /\ bp_pc = "run" /\ has_pattern
  /\ Len(manual) = 2 /\ manual[1].sop = 1 /\ manual[2].sop = 0 /\ manual[2].eop = 0
  /\ manual[1].data = 1 /\ manual[2].data = 2
  /\ mheld = 2 /\ sig.valid = 1 /\ sig.ready = 1 /\ "bpsink" \in ran
  /\ last_valid_ready
  /\ bp_cur_pkt = <<1, 2>>

\* The drain task of a port has presented its packet completely.
PortDone(p) == offered[p] # <<>> /\ drain[p].pc \in {"gap", "idle"}
IsPrefix(s, w) == Len(s) <= Len(w) /\ s = SubSeq(w, 1, Len(s))

\* C29 -- Strict priority and atomicity under contention: once ports A and
\* B have both shown a packet start on the same edge, whatever C's ready
\* does, the sink on C collects A's packet first and whole, then B's packet
\* unmodified: its history is at every moment a prefix of <<A's packet,
\* B's packet>>, the packet in progress is a prefix of the next one due
\* (no word of the other port in it), and once both sources have finished
\* and the sink has run on the edge the history is exactly the two packets.
C29_StrictPriority ==
  (k_pc = "run" /\ contended) =>
    LET due == <<offered["A"], offered["B"]>>
    IN  /\ IsPrefix(packets, due)
        /\ Len(packets) < 2 => IsPrefix(cur_pkt, due[Len(packets) + 1])
        /\ Len(packets) = 2 => cur_pkt = <<>>
        /\ (PortDone("A") /\ PortDone("B") /\ "sink" \in ran) => packets = due

\* Both ports showed their start on one edge; C's ready is driven by the
\* scenario and is low now; A's three words were collected first and B's
\* different packet after it.
C29_Witness ==
  /\ k_pc = "run" /\ ~always_ready /\ contended
  /\ PortDone("A") /\ PortDone("B")
  /\ Len(offered["A"]) = 3 /\ Len(offered["B"]) = 2
  /\ offered["A"][1] # offered["B"][1]
  /\ packets = <<offered["A"], offered["B"]>>
  /\ sig.ready = 0

\* C32 -- Pattern state invariant: in pattern mode (every holdCycles
\* positive) 0 <= pattern_idx < len(ready_pattern) and 0 <=
\* cycles_in_pattern < holdCycles of the current segment at every edge, and
\* the step on which the pattern starts over after its last segment leaves
\* (pattern_idx, cycles_in_pattern) = (0, 0).
C32_PatternState ==
  /\ []((bp_pc = "run" /\ has_pattern) =>
          /\ 0 <= pattern_idx /\ pattern_idx < Len(ready_pattern)
          /\ 0 <= cycles_in_pattern
          /\ cycles_in_pattern < ready_pattern[pattern_idx + 1][1])
  /\ [][(bp_pc = "run" /\ has_pattern /\ Resumed("bpsink") /\ bp_edges' = 0)
         => (pattern_idx' = 0 /\ cycles_in_pattern' = 0)]_vars

\* The pattern (2, True), (1, False) has run through its last segment and
\* started over while a packet was being collected.
C32_Witness ==
  /\ bp_pc = "run" /\ has_pattern /\ "bpsink" \in ran
  /\ ready_pattern = <<<<2, TRUE>>, <<1, FALSE>>>>
  /\ bp_cur_pkt # <<>>
  /\ bp_edges = 0 /\ pattern_idx = 0 /\ cycles_in_pattern = 0

\* C33 -- Parallel metadata: packets and _packet_metadata of AvalonSTSink
\* have the same length in every state; the entry appended with a packet
\* holds empty and error as they were on the edge whose accepted end word
\* closed that packet, the earlier entries unchanged;
\* get_last_packet_metadata() returns the entry of the last collected packet,
\* and None exactly when no packet was collected since creation or the last
\* clear().
C33_ParallelMetadata ==
  /\ [](/\ Len(packet_metadata) = Len(packets)
        /\ (packets = <<>>) <=> (get_last_packet_metadata = None)
        /\ (packets # <<>>) =>
              (get_last_packet_metadata = packet_metadata[Len(packets)]))
  /\ [][/\ (Len(packets') > Len(packets)) =>
             (/\ SinkResumed /\ sig.valid = 1 /\ sig.ready = 1 /\ sig.eop = 1
              /\ Len(packets') = Len(packets) + 1
              /\ packet_metadata' =
                   Append(packet_metadata,
                          [empty |-> sig.empty, error |-> sig.error]))
        /\ (Len(packets') = Len(packets)) => (packet_metadata' = packet_metadata)
        /\ (Len(packets') < Len(packets)) =>
             (clears' # clears /\ get_last_packet_metadata' = None)]_vars

\* After a clear() a packet flagged with error was collected, and it is the
\* one get_last_packet_metadata() reports.
C33_Witness ==
  /\ clears > 0 /\ Len(packets) = 1 /\ Len(packets[1]) = 2
  /\ get_last_packet_metadata = [empty |-> 0, error |-> 1]

\* One step of a sink's history (log to log2) and buffer (cur to cur2): the
\* buffer gets its first word only from an accepted start word, otherwise it
\* grows at the end or is emptied; a packet is added only on an accepted end
\* word, and is that word alone when it also carries start, the non-empty
\* buffer and that word otherwise.
StartsWithStartWord(log, log2, cur, cur2) ==
  LET accepted == sig.valid = 1 /\ sig.ready = 1
  IN  /\ (cur2 # <<>> /\ ~(cur # <<>> /\ IsPrefix(cur, cur2))) =>
           (accepted /\ sig.sop = 1 /\ cur2 = <<sig.data>>)
      /\ (log2 # log) =>
           /\ accepted /\ sig.eop = 1
           /\ Len(log2) = Len(log) + 1
           /\ LET pkt == log2[Len(log2)]
              IN  IF sig.sop = 1 THEN pkt = <<sig.data>>
                  ELSE cur # <<>> /\ IsPrefix(cur, pkt)

\* C34 -- Every packet in the collected history of either sink class has at
\* least one word; its first word is one that was accepted with start
\* asserted; a word accepted with both start and end yields a packet of
\* exactly that one word.
C34_PacketShape ==
  /\ [](/\ \A k \in 1..Len(packets) : Len(packets[k]) >= 1
        /\ \A k \in 1..Len(bp_packets) : Len(bp_packets[k]) >= 1)
  /\ [][/\ StartsWithStartWord(packets, packets', cur_pkt, cur_pkt')
        /\ StartsWithStartWord(bp_packets, bp_packets', bp_cur_pkt, bp_cur_pkt')
       ]_vars

\* A hand-driven word with start and end was collected as a one-word packet
\* by AvalonSTSinkWithBackpressure after words without start had gone by.
C34_Witness ==
  /\ bp_pc = "run" /\ Len(manual) = 2
  /\ manual[1].sop = 0 /\ manual[2].sop = 1 /\ manual[2].eop = 1
  /\ bp_packets = <<(<<manual[2].data>>)>>

\* The number of words in a list of word lists.
RECURSIVE WordCount(_)
WordCount(log) == IF log = <<>> THEN 0 ELSE Len(log[1]) + WordCount(Tail(log))
\* Words the sends have counted as accepted; words the sink has processed.
SourceAccepted == WordCount(WordsOf(Front(sent))) + src_acc
SinkProcessed == WordCount(packets) + Len(cur_pkt)
\* The send in progress and run() have both been resumed on the current
\* edge, or neither has.
SameEdge == src_pc \in {"init", "wait", "fin"} => ("src" \in ran <=> "sink" \in ran)

\* C36 -- No loss or duplication under arbitrary readiness: with send_packet
\* wired to AvalonSTSink.run(always_ready=False) and ready toggled by the
\* scenario, after every edge the sends have counted exactly as many words
\* accepted as the sink has processed; the word the sink processes on an
\* edge is the word the send counts on that edge; once a send has returned
\* the history holds exactly the packets sent; and if ready is asserted
\* infinitely often every send returns with its packet collected.
C36_NoLossNoDuplication ==
  /\ []((k_pc = "run" /\ ~always_ready /\ sent # <<>> /\ SameEdge) =>
          SourceAccepted = SinkProcessed)
  /\ []((k_pc = "run" /\ ~always_ready /\ src_pc = "idle") => packets = WordsOf(sent))
  /\ [][(~always_ready /\ SinkResumed /\ sig.valid = 1 /\ sig.ready = 1) =>
          /\ src_pc \in {"wait", "fin"}
          /\ SinkProcessed' = SinkProcessed + 1
          /\ sig.data = src_words[Len(cur_pkt) + 1]
          /\ src_acc \in {Len(cur_pkt), Len(cur_pkt) + 1}]_vars
  /\ [][(~always_ready /\ Resumed("src") /\ src_acc' = src_acc + 1) =>
          /\ sig.valid = 1 /\ sig.ready = 1
          /\ sig.data = src_words[src_acc + 1]]_vars
  /\ ([]<>(sig.ready = 1)) =>
       []((~always_ready /\ src_pc # "idle") =>
            <>(src_pc = "idle" /\ packets = WordsOf(sent)))

\* A three-word packet was collected whole with ready driven by the
\* scenario, which lowered it again on the edge of the last acceptance.
C36_Witness ==
  /\ k_pc = "run" /\ ~always_ready /\ src_pc = "fin" /\ "src" \in ran /\ "sink" \in ran
  /\ Len(src_words) = 3 /\ src_acc = 3 /\ packets = <<src_words>>
  /\ sig.ready = 1 /\ nsig.ready = 0

\* The task has just presented a word (it did not merely keep waiting).
WordPresented ==
  DrainResumed /\ q_pc' = "wait" /\ ~(q_pc = "wait" /\ sig.ready = 0)

\* C37 (as stated) -- Drain cursor stays in bounds: for enqueued packets of
\* any word-list length and any interleaving of queue_packet and clear_queue
\* with the task, the task never fails.
C37_NeverFails == q_pc # "dead"

\* C37 (amended) -- Drain cursor stays in bounds: for enqueued packets of at
\* least one word and any interleaving of queue_packet and clear_queue with
\* the task, whenever the task presents a word 0 <= current_word_idx <
\* len(words) of the packet in flight holds and that word is the one on the
\* port, so the task never fails; the task fails only when it takes a packet
\* with an empty word list, and from then on it stays ended.
C37_CursorInBounds ==
  /\ [][WordPresented =>
          /\ current_packet' # <<>>
          /\ 0 <= current_word_idx'
          /\ current_word_idx' < Len(current_packet'[1].words)
          /\ Frame(nsig') = FrameOfWord(current_packet'[1].words, current_word_idx',
                                       current_packet'[1].empty_last,
                                       current_packet'[1].error)]_vars
  /\ []((\A k \in 1..Len(enq) : enq[k].words # <<>>) => q_pc # "dead")
  /\ [][(q_pc # "dead" /\ q_pc' = "dead") =>
          (DrainResumed /\ current_packet' # <<>> /\ current_packet'[1].words = <<>>)]_vars
  /\ [][q_pc = "dead" => q_pc' = "dead"]_vars

\* clear_queue() was called while the first packet was waiting for ready; the
\* packet enqueued afterwards is in flight with its second word presented.
C37_Witness ==
  /\ qclears = 1 /\ qclear_enq = 1 /\ Len(enq) = 2 /\ Len(enq[1].words) = 3
  /\ q_pc = "wait" /\ q_n = 2 /\ current_packet = <<enq[2]>> /\ current_word_idx = 1
  /\ packets = <<>> /\ nsig.valid = 1 /\ nsig.eop = 1

\* The word lists enqueued since the last clear_queue().
EnqueuedSinceClear == WordsOf(SubSeq(enq, qclear_enq + 1, Len(enq)))
\* The sink's history ends with the given packets.
EndsWith(log, tail) ==
  /\ Len(log) >= Len(tail)
  /\ SubSeq(log, Len(log) - Len(tail) + 1, Len(log)) = tail

\* C38 -- Recovery after clear: when clear_queue() has been called at any
\* moment (task idle, mid-packet or waiting for ready) and packets of at
\* least one word are enqueued afterwards, then with ready asserted
\* infinitely often the task takes each of them at word 0, presented with
\* sop, and eventually get_queue_size() is 0 again and the sink has collected
\* them whole, first word to last, in enqueue order.
C38_RecoveryAfterClear ==
  /\ [][(qclears > 0 /\ DrainResumed /\ current_packet' # <<>>
         /\ current_packet' # current_packet /\ current_packet'[1].words # <<>>) =>
          /\ current_word_idx' = 0
          /\ nsig'.valid = 1 /\ nsig'.sop = 1
          /\ nsig'.data = current_packet'[1].words[1]]_vars
  /\ ([](\A k \in 1..Len(enq) : enq[k].words # <<>>) /\ []<>(sig.ready = 1)) =>
       []((qclears > 0 /\ Len(enq) > qclear_enq) =>
            <>(get_queue_size = 0 /\ EndsWith(packets, EnqueuedSinceClear)))

\* clear_queue() dropped a three-word packet that was waiting for ready with
\* its first word on the port; the two-word packet enqueued afterwards was
\* collected whole and the source is empty again.
C38_Witness ==
  /\ qclears = 1 /\ qclear_enq = 1 /\ Len(enq) = 2
  /\ Len(enq[1].words) = 3 /\ Len(enq[2].words) = 2
  /\ get_queue_size = 0 /\ q_pc = "idle"
  /\ packets = <<enq[2].words>>

\* Word e of a log of accepted words closes a packet: it carries end, and a
\* start word at or before it has no end word between the two.
Closes(log, e) ==
  /\ log[e].eop = 1
  /\ \E s \in 1..e : log[s].sop = 1 /\ \A j \in s..(e - 1) : log[j].eop = 0
\* The last start word at or before word e.
LastStart(log, e) ==
  CHOOSE s \in 1..e : log[s].sop = 1 /\ \A j \in (s + 1)..e : log[j].sop = 0
\* The packets that the first e words of a log of accepted words make up:
\* one per closing word, from the last start word before it.
RECURSIVE PacketsUpTo(_, _)
PacketsUpTo(log, e) ==
  IF e = 0 THEN <<>>
  ELSE IF Closes(log, e)
       THEN LET s == LastStart(log, e)
            IN  Append(PacketsUpTo(log, e - 1), [k \in 1..(e - s + 1) |-> log[s + k - 1].data])
       ELSE PacketsUpTo(log, e - 1)
\* No word with start was accepted since the last clear().
NoStartSinceClear == \A j \in 1..Len(acc_log) : acc_log[j].sop = 0

\* C39 -- Sink clear mid-packet: clear() called while a packet is in progress
\* leaves an empty history and buffer and the assembler IDLE; from then on
\* the history is made of the words accepted after the clear alone (no word
\* accepted before it appears in a later packet); and until a word is
\* accepted with start, the accepted words of the interrupted packet change
\* nothing.
C39_ClearMidPacket ==
  /\ [][(clears' # clears /\ in_pkt) =>
          (packets' = <<>> /\ cur_pkt' = <<>> /\ ~in_pkt')]_vars
  /\ [](clears > 0 => packets = PacketsUpTo(acc_log, Len(acc_log)))
  /\ []((clears > 0 /\ NoStartSinceClear) =>
          (packets = <<>> /\ cur_pkt = <<>> /\ ~in_pkt))

\* clear() was called after the first two words of a three-word packet had
\* been accepted; the third, with end, was accepted afterwards and nothing
\* was collected.
C39_Witness ==
  /\ clears = 1 /\ src_pc = "fin" /\ Len(sent) = 1 /\ manual = <<>>
  /\ Len(src_words) = 3 /\ src_acc = 3
  /\ Len(acc_log) = 1 /\ acc_log[1].eop = 1 /\ acc_log[1].sop = 0
  /\ packets = <<>> /\ ~in_pkt /\ cur_pkt = <<>>

\* C40 -- The two sinks agree without a pattern: AvalonSTSink.run with
\* always_ready=True and AvalonSTSinkWithBackpressure.run with no pattern,
\* resumed on the same edges with the same valid, ready, sop, eop and data,
\* hold the same packets list, and the same buffer and assembler state,
\* after every edge.
C40_SinksAgree ==
  (k_pc = "run" /\ bp_pc = "run" /\ ("sink" \in ran <=> "bpsink" \in ran)) =>
    /\ bp_packets = packets
    /\ bp_cur_pkt = cur_pkt
    /\ bp_in_pkt = in_pkt

\* Two hand-driven start words, the second with end, have gone by with
\* set_ready() called on the way, and both sinks hold the one-word packet of
\* the second.
C40_Witness ==
  /\ k_pc = "run" /\ bp_pc = "run" /\ "sink" \in ran /\ "bpsink" \in ran
  /\ sr_count > 0 /\ Len(manual) = 2
  /\ manual[1].sop = 1 /\ manual[1].eop = 0 /\ manual[2].sop = 1 /\ manual[2].eop = 1
  /\ manual[1].data # manual[2].data
  /\ packets = <<(<<manual[2].data>>)>> /\ bp_packets = packets

\* The step just taken is a set_idle() call.
SetIdleCalled == set_idles' # set_idles

\* C35 -- AvalonSTQueuedSource.set_idle() stops sending but keeps the queue:
\* the call writes valid, sop, eop, empty and error to 0 and leaves
\* packet_queue, current_packet and current_word_idx as they are, and the
\* five signals remain 0 until the scenario queues another packet.
C35_SetIdleStopsSending ==
  /\ [][SetIdleCalled =>
          /\ MarkersClear(nsig')
          /\ UNCHANGED <<packet_queue, current_packet, current_word_idx>>]_vars
  /\ []((set_idles > 0 /\ Len(enq) = idle_enq) => MarkersClear(nsig))

\* What does hold of set_idle(): the call writes the five signals to 0 and
\* touches neither the queue nor the task.
C35_SetIdleFrame ==
  [][SetIdleCalled =>
       /\ MarkersClear(nsig')
       /\ nsig'.data = nsig.data /\ nsig'.ready = nsig.ready
       /\ UNCHANGED <<packet_queue, current_packet, current_word_idx, q_pc, q_n>>
       /\ get_queue_size' = get_queue_size]_vars

\* C31 -- The queued source presents frames like the synchronous source:
\* given the same packet in the same timestep and the same ready on every
\* edge, the six signals (data, valid, sop, eop, empty, error) the drain
\* task drives equal those send_packet drives on every edge, and the drain
\* task holds a word unchanged over an edge on which ready is low.
C31_SameFrames ==
  /\ [](ran = {} => Frame(port["A"]) = Frame(sig))
  /\ [][("A" \notin ran /\ "A" \in ran' /\ drain["A"].pc = "wait"
         /\ port["A"].ready = 0) =>
          (Frame(nport'["A"]) = Frame(nport["A"]) /\ drain'["A"] = drain["A"])]_vars

\* The last word of a three-word packet with a non-zero empty count and the
\* error flag is on both ports, after an edge with ready low.
C31_Witness ==
  /\ ran = {} /\ src_pc = "wait" /\ drain["A"].pc = "wait"
  /\ Len(src_words) = 3 /\ src_i = 2 /\ drain["A"].idx = 2
  /\ sig.valid = 1 /\ sig.eop = 1 /\ sig.empty = 3 /\ sig.ready = 0
  /\ Frame(port["A"]) = Frame(sig)
====
